---- MODULE Spec2Model ----
(***************************************************************************)
(* A model of the standalone routing information base (RIB) of the FBOSS    *)
(* agent: RoutingInformationBase::update and ::reconfigure, the             *)
(* ConfigApplier they drive, and the Thrift entry points that call them.    *)
(* Callers are OS threads; the RIB serialises them with one writer lock     *)
(* (synchronizedRouteTables_.wlock()).                                      *)
(***************************************************************************)
EXTENDS Integers, Sequences, FiniteSets, TLC

VARIABLES
  routeTables,   \* synchronizedRouteTables_: RouterID -> RouteTable
  lock,          \* holder of the writer lock of synchronizedRouteTables_, or Free
  pc,            \* per thread: where it stands inside update / reconfigure
  call,          \* per thread: the arguments (and statistics) of the call in progress
  lastRet,       \* how the most recently finished call ended
  fib,           \* per VRF: the forwarding snapshot last published by an apply step
  snapshotLag,   \* per VRF: commits (updateDone) no apply step has observed yet
  bcmFib,        \* BcmRouteTable::fib_: (vrf, prefix) -> the BcmRoute programmed for it
  multiPathNextHopTable,  \* the live BcmMultiPathNextHop objects, by handle
  hostRouteEntry,  \* BcmRoute::hostRouteEntry_ of each BcmRoute of fib_
  now,           \* std::chrono::steady_clock::now()
  timer,         \* per thread: Timer::start_ of its update, and when the call was
                 \* entered and when it got the writer lock
  lastDuration,  \* stats.duration of the update that returned last
  fullyConfigured,  \* SwSwitch::isFullyConfigured()
  fibSynced,     \* SwSwitch::isFibSynced()
  handler,       \* per thread: the Thrift handler its update was called by
  applyFnCalls,  \* the calls of updateStateBlockingFn since the last call began
  vlans_,        \* SaiVlanManager::vlans_: VlanID -> SaiVlan (id, members_, memberIdMap_)
  vlanSaiIds_,   \* SaiVlanManager::vlanSaiIds_: SAI id of a VLAN -> VlanID
  portVlan,      \* per port of the port manager: the VLAN given to setPortVlan
  swVlans        \* the VLANs of the switch state: VlanID -> its member ports

\* the state of the RIB and the state of the hardware tables
ribVars == <<routeTables, lock, pc, call, lastRet, fib, snapshotLag>>

bcmVars == <<bcmFib, multiPathNextHopTable, hostRouteEntry>>

\* the clock and what Timer measures
clockVars == <<now, timer, lastDuration>>

\* the state of SwSwitch and of the Thrift handler
swVars == <<fullyConfigured, fibSynced, handler, applyFnCalls>>

\* the state of the SAI VLAN manager and of the ports it configures
saiVars == <<vlans_, vlanSaiIds_, portVlan, swVlans>>

vars == <<ribVars, bcmVars, clockVars, swVars, saiVars>>

----------------------------------------------------------------------------
(* Bounds of the model *)

\* longest toAdd list a caller passes to update
MaxAdd == 2

\* longest toDelete list a caller passes to update
MaxDel == 1

\* longest list of each kind of static route in a configuration
MaxStatic == 1

\* the ports a VLAN definition may name are 1..MaxPort
MaxPort == 3

\* the VLANs of the switch state are 1..MaxVlan
MaxVlan == 2

\* the SAI ids create hands out for VLAN objects are 1..MaxVlanSaiId
MaxVlanSaiId == 2

\* the SAI ids createMember hands out are 1..MaxMemberId
MaxMemberId == 2

Threads == {"t1", "t2"}

\* every RouterID a configuration may name
VrfIds == {0, 1}

----------------------------------------------------------------------------
(* Identifiers *)

PortIds == 1..MaxPort

\* the ports the port manager has: getPort of an even PortID returns null
KnownPorts == {port \in PortIds : port % 2 = 1}

\* port->getBridgePort()->id()
bridgePortOf(port) == port

VlanIds == 1..MaxVlan

VlanSaiIds == 1..MaxVlanSaiId

MemberIds == 1..MaxMemberId

DefaultVrf == 0

Free == "free"
NoCall == [op |-> "none"]
NoIntf == "none"

BGPD == "BGPD"
STATIC_ROUTE == "STATIC_ROUTE"
INTERFACE_ROUTE == "INTERFACE_ROUTE"
LINK_LOCAL_ROUTE == "LINK_LOCAL_ROUTE"

ClientIds == {BGPD, STATIC_ROUTE, INTERFACE_ROUTE, LINK_LOCAL_ROUTE}

kNet4 == "10.0.0.0/24"
kNet8 == "20.0.0.0/8"
kHost == "8.8.8.8/32"
kNet8b == "30.0.0.0/8"
kIPv4LinkLocal == "169.254.0.0/16"
kIPv6LinkLocal == "fe80::/10"

Prefixes == {kNet4, kNet8, kHost, kIPv4LinkLocal, kIPv6LinkLocal}

\* a destination whose binary address has no valid length (toIPAddress and
\* createNetwork throw on it)
Malformed == "malformed"

\* the destinations update is called with
UpdateDests == {kNet4, kIPv6LinkLocal}

\* an address of 10.0.0.0/24 and one of 20.0.0.0/8
kGateway == "10.0.0.1"
kGateway2 == "20.0.0.1"

\* a second address of 10.0.0.0/24
kGatewayB == "10.0.0.2"

isV4(p) == p \in {kNet4, kNet8, kNet8b, kHost, kIPv4LinkLocal}

MaskLen(p) ==
  CASE p = kNet4 -> 24
    [] p = kNet8 -> 8
    [] p = kNet8b -> 8
    [] p = kHost -> 32
    [] p = kIPv4LinkLocal -> 16
    [] p = kIPv6LinkLocal -> 10

\* the prefix p covers the address a
Covers(p, a) ==
  <<p, a>> \in {<<kNet4, kGateway>>, <<kNet4, kGatewayB>>, <<kNet8, kGateway2>>}

EmptyMap == [x \in {} |-> x]

EmptyRouteTable == [v4NetworkToRoute |-> EmptyMap, v6NetworkToRoute |-> EmptyMap]

clientIdToAdminDistance(c) ==
  CASE c = INTERFACE_ROUTE -> 0
    [] c = LINK_LOCAL_ROUTE -> 0
    [] c = STATIC_ROUTE -> 1
    [] c = BGPD -> 200

\* the fixed order that breaks ties between equal admin distances
clientPriority(c) ==
  CASE c = INTERFACE_ROUTE -> 0
    [] c = LINK_LOCAL_ROUTE -> 1
    [] c = STATIC_ROUTE -> 2
    [] c = BGPD -> 3

----------------------------------------------------------------------------
(* RouteNextHopEntry: one client's candidate for a prefix *)

createToCpu == [action |-> "TO_CPU", nhops |-> {}, adminDistance |-> 1]

createDrop == [action |-> "DROP", nhops |-> {}, adminDistance |-> 1]

\* RouteNextHopEntry::from(route, defaultAdminDistance)
entryFrom(route, adminDistance) ==
  IF route.nextHops = {}
  THEN [action |-> "DROP", nhops |-> {}, adminDistance |-> adminDistance]
  ELSE [action |-> "NEXTHOPS",
        nhops |-> {[addr |-> a, intf |-> NoIntf] : a \in route.nextHops},
        adminDistance |-> adminDistance]

fromStaticRoute(staticRoute) ==
  [action |-> "NEXTHOPS",
   nhops |-> {[addr |-> a, intf |-> NoIntf] : a \in staticRoute.nexthops},
   adminDistance |-> 1]

Pending == [action |-> "PENDING", nhops |-> {}]

----------------------------------------------------------------------------
(* RouteUpdater: the mutation engine over one VRF's (v4, v6) maps *)

mapOf(rt, p) == IF isV4(p) THEN rt.v4NetworkToRoute ELSE rt.v6NetworkToRoute

withMap(rt, p, m) ==
  IF isV4(p) THEN [rt EXCEPT !.v4NetworkToRoute = m]
  ELSE [rt EXCEPT !.v6NetworkToRoute = m]

\* the prefixes of both maps
networks(rt) == DOMAIN rt.v4NetworkToRoute \cup DOMAIN rt.v6NetworkToRoute

routeOf(rt, p) == mapOf(rt, p)[p]

addRoute(rt, p, client, entry) ==
  LET m == mapOf(rt, p)
      old == IF p \in DOMAIN m THEN m[p].entries ELSE EmptyMap
      new == [c \in DOMAIN old \cup {client} |->
                IF c = client THEN entry ELSE old[c]]
  IN withMap(rt, p,
       [q \in DOMAIN m \cup {p} |->
          IF q = p THEN [entries |-> new, fwd |-> Pending] ELSE m[q]])

\* drop client's candidate of one map's route; erase the route when it was the last
delFromMap(m, p, client) ==
  IF p \notin DOMAIN m \/ client \notin DOMAIN m[p].entries THEN m
  ELSE LET left == [c \in DOMAIN m[p].entries \ {client} |-> m[p].entries[c]]
       IN IF DOMAIN left = {}
          THEN [q \in DOMAIN m \ {p} |-> m[q]]
          ELSE [m EXCEPT ![p] = [entries |-> left, fwd |-> Pending]]

delRoute(rt, p, client) == withMap(rt, p, delFromMap(mapOf(rt, p), p, client))

RECURSIVE purgeMap(_, _, _)
purgeMap(m, todo, client) ==
  IF todo = {} THEN m
  ELSE LET p == CHOOSE q \in todo : TRUE
       IN purgeMap(delFromMap(m, p, client), todo \ {p}, client)

removeAllRoutesForClient(rt, client) ==
  [v4NetworkToRoute |->
     purgeMap(rt.v4NetworkToRoute, DOMAIN rt.v4NetworkToRoute, client),
   v6NetworkToRoute |->
     purgeMap(rt.v6NetworkToRoute, DOMAIN rt.v6NetworkToRoute, client)]

addInterfaceRoute(rt, p, endpoint, interfaceID) ==
  addRoute(rt, p, INTERFACE_ROUTE,
    [action |-> "NEXTHOPS",
     nhops |-> {[addr |-> endpoint, intf |-> interfaceID]},
     adminDistance |-> 0])

addLinkLocalRoutes(rt) ==
  addRoute(
    addRoute(rt, kIPv4LinkLocal, LINK_LOCAL_ROUTE,
      [action |-> "TO_CPU", nhops |-> {}, adminDistance |-> 0]),
    kIPv6LinkLocal, LINK_LOCAL_ROUTE,
    [action |-> "TO_CPU", nhops |-> {}, adminDistance |-> 0])

----------------------------------------------------------------------------
(* Recursive resolution, run by RouteUpdater::updateDone at commit *)

kMaxRecursionDepth == 32

NoMatch == "no route"

Unresolved == [action |-> "UNRESOLVED", nhops |-> {}]

\* the candidate with the largest admin distance wins
bestClientLargest(entries) ==
  CHOOSE c \in DOMAIN entries : \A d \in DOMAIN entries :
    \/ entries[c].adminDistance > entries[d].adminDistance
    \/ /\ entries[c].adminDistance = entries[d].adminDistance
       /\ clientPriority(c) <= clientPriority(d)

\* RouteEntry best(): smallest admin distance, ties by client priority
bestClient(entries) ==
  CHOOSE c \in DOMAIN entries : \A d \in DOMAIN entries :
    \/ entries[c].adminDistance < entries[d].adminDistance
    \/ /\ entries[c].adminDistance = entries[d].adminDistance
       /\ clientPriority(c) <= clientPriority(d)

\* the longest prefix of the VRF that covers address a, or NoMatch
longestMatch(rt, a) ==
  LET covering == {p \in networks(rt) : Covers(p, a)}
  IN IF covering = {} THEN NoMatch
     ELSE CHOOSE p \in covering : \A q \in covering : MaskLen(q) <= MaskLen(p)

\* a next hop resolved through another route takes that route's gateway with its
\* interface
resolveRouteTakesLastGateway(rt, p, below) ==
  LET entries == routeOf(rt, p).entries
      b == entries[bestClient(entries)]
      via(nh) ==
        IF nh.intf # NoIntf THEN [action |-> "NEXTHOPS", nhops |-> {nh}]
        ELSE LET q == longestMatch(rt, nh.addr)
             IN IF q = NoMatch \/ q \notin DOMAIN below THEN Unresolved
                ELSE below[q]
      parts == {via(nh) : nh \in b.nhops}
  IN IF b.action # "NEXTHOPS" THEN [action |-> b.action, nhops |-> {}]
     ELSE IF \E r \in parts : r.action = "DROP" THEN [action |-> "DROP", nhops |-> {}]
     ELSE IF \E r \in parts : r.action = "TO_CPU" THEN [action |-> "TO_CPU", nhops |-> {}]
     ELSE IF \E r \in parts : r.action = "UNRESOLVED" THEN Unresolved
     ELSE [action |-> "NEXTHOPS", nhops |-> UNION {r.nhops : r \in parts}]

\* the resolution of p's best candidate, given in `below` the resolution of every
\* route with one level of recursion less (no route at all when none is left)
resolveRoute(rt, p, below) ==
  LET entries == routeOf(rt, p).entries
      b == entries[bestClient(entries)]
      via(nh) ==
        IF nh.intf # NoIntf THEN [action |-> "NEXTHOPS", nhops |-> {nh}]
        ELSE LET q == longestMatch(rt, nh.addr)
             IN IF q = NoMatch \/ q \notin DOMAIN below THEN Unresolved
                ELSE IF below[q].action = "NEXTHOPS"
                THEN [action |-> "NEXTHOPS",
                      nhops |-> {[addr |-> nh.addr, intf |-> x.intf] :
                                   x \in below[q].nhops}]
                ELSE below[q]
      parts == {via(nh) : nh \in b.nhops}
  IN IF b.action # "NEXTHOPS" THEN [action |-> b.action, nhops |-> {}]
     ELSE IF \E r \in parts : r.action = "DROP" THEN [action |-> "DROP", nhops |-> {}]
     ELSE IF \E r \in parts : r.action = "TO_CPU" THEN [action |-> "TO_CPU", nhops |-> {}]
     ELSE IF \E r \in parts : r.action = "UNRESOLVED" THEN Unresolved
     ELSE [action |-> "NEXTHOPS", nhops |-> UNION {r.nhops : r \in parts}]

\* the resolution of every route with kMaxRecursionDepth levels of recursion; cur
\* holds it for `depth` levels, and one more level changes nothing once two
\* consecutive levels agree
RECURSIVE resolveAll(_, _, _)
resolveAll(rt, depth, cur) ==
  IF depth = kMaxRecursionDepth THEN cur
  ELSE LET next == [p \in networks(rt) |-> resolveRoute(rt, p, cur)]
       IN IF next = cur THEN cur ELSE resolveAll(rt, depth + 1, next)

updateDone(rt) ==
  LET fwd == resolveAll(rt, 0, [p \in networks(rt) |-> resolveRoute(rt, p, EmptyMap)])
  IN [v4NetworkToRoute |->
        [p \in DOMAIN rt.v4NetworkToRoute |->
           [entries |-> rt.v4NetworkToRoute[p].entries, fwd |-> fwd[p]]],
      v6NetworkToRoute |->
        [p \in DOMAIN rt.v6NetworkToRoute |->
           [entries |-> rt.v6NetworkToRoute[p].entries, fwd |-> fwd[p]]]]

isResolved(route) == route.fwd.action \in {"NEXTHOPS", "DROP", "TO_CPU"}

\* unresolved routes are copied into the snapshot too
fibUpdaterKeepsUnresolved(rt) == [p \in networks(rt) |-> routeOf(rt, p).fwd]

\* ForwardingInformationBaseUpdater: the forwarding snapshot of one VRF
fibUpdater(rt) ==
  LET resolved == {p \in networks(rt) : isResolved(routeOf(rt, p))}
  IN [p \in resolved |-> routeOf(rt, p).fwd]

----------------------------------------------------------------------------
(* RoutingInformationBase::update *)

SeqsUpTo(S, n) == UNION {[1..k -> S] : k \in 0..n}

\* the RouterIDs update is called with (the Thrift handler passes RouterID(0))
UpdateVrfs == {DefaultVrf}

NoStats ==
  [v4RoutesAdded |-> 0, v6RoutesAdded |-> 0,
   v4RoutesDeleted |-> 0, v6RoutesDeleted |-> 0]

\* update was called by no Thrift handler
NoHandler == "none"

\* the Thrift handlers that call update
Handlers == {"addUnicastRoutes", "deleteUnicastRoutes", "syncFib"}

\* the updateType each caller passes to update
updateTypeOf(h) ==
  CASE h = "addUnicastRoutes" -> "addUnicastRoutes"
    [] h = "syncFib" -> "syncFib"
    [] h = "deleteUnicastRoutes" -> "delete unicast route"
    [] h = NoHandler -> "update"

\* the arguments each caller passes to update: addUnicastRoutes the routes to
\* add, syncFib the same with resetClientsRoutes, deleteUnicastRoutes the
\* prefixes to delete; any other caller whatever it likes
admits(h, arg, resetClientsRoutes) ==
  CASE h = "addUnicastRoutes" -> arg.toDelete = <<>> /\ ~resetClientsRoutes
    [] h = "syncFib" -> arg.toDelete = <<>> /\ resetClientsRoutes
    [] h = "deleteUnicastRoutes" -> arg.toAdd = <<>> /\ ~resetClientsRoutes
    [] h = NoHandler -> TRUE

\* a lock that excludes nobody
wlockNotExclusive(t) == TRUE

\* synchronizedRouteTables_.wlock() returns once no other thread holds the lock
wlock(t) == lock = Free

\* the reset is skipped
resetClientNever(rt, resetClientsRoutes, clientID) == rt

\* the reset purges every client's routes
resetClientPurgesAll(rt, resetClientsRoutes, clientID) ==
  IF resetClientsRoutes
  THEN removeAllRoutesForClient(
         removeAllRoutesForClient(
           removeAllRoutesForClient(
             removeAllRoutesForClient(rt, BGPD), STATIC_ROUTE),
           INTERFACE_ROUTE),
         LINK_LOCAL_ROUTE)
  ELSE rt

\* if (resetClientsRoutes) updater.removeAllRoutesForClient(clientID)
resetClient(rt, resetClientsRoutes, clientID) ==
  IF resetClientsRoutes THEN removeAllRoutesForClient(rt, clientID) ELSE rt

\* a route the client already has a candidate for is rejected
RECURSIVE addRoutesRejectsRepeat(_, _, _, _, _)
addRoutesRejectsRepeat(acc, toAdd, i, clientID, adminDistance) ==
  IF i > Len(toAdd) THEN acc
  ELSE IF toAdd[i].dest = Malformed THEN [acc EXCEPT !.thrown = TRUE]
  ELSE IF /\ toAdd[i].dest \in networks(acc.rt)
          /\ clientID \in DOMAIN routeOf(acc.rt, toAdd[i].dest).entries
  THEN [acc EXCEPT !.thrown = TRUE]
  ELSE addRoutesRejectsRepeat(
         [rt |-> addRoute(acc.rt, toAdd[i].dest, clientID,
                          entryFrom(toAdd[i], adminDistance)),
          thrown |-> FALSE,
          stats |-> IF isV4(toAdd[i].dest)
                    THEN [acc.stats EXCEPT !.v4RoutesAdded = @ + 1]
                    ELSE [acc.stats EXCEPT !.v6RoutesAdded = @ + 1]],
         toAdd, i + 1, clientID, adminDistance)

\* a route is counted only when it changes the client's candidate
RECURSIVE addRoutesCountsChanges(_, _, _, _, _)
addRoutesCountsChanges(acc, toAdd, i, clientID, adminDistance) ==
  IF i > Len(toAdd) THEN acc
  ELSE IF toAdd[i].dest = Malformed THEN [acc EXCEPT !.thrown = TRUE]
  ELSE LET changes ==
             \/ toAdd[i].dest \notin networks(acc.rt)
             \/ clientID \notin DOMAIN routeOf(acc.rt, toAdd[i].dest).entries
             \/ routeOf(acc.rt, toAdd[i].dest).entries[clientID]
                  # entryFrom(toAdd[i], adminDistance)
       IN addRoutesCountsChanges(
            [rt |-> addRoute(acc.rt, toAdd[i].dest, clientID,
                             entryFrom(toAdd[i], adminDistance)),
             thrown |-> FALSE,
             stats |-> IF ~changes THEN acc.stats
                       ELSE IF isV4(toAdd[i].dest)
                       THEN [acc.stats EXCEPT !.v4RoutesAdded = @ + 1]
                       ELSE [acc.stats EXCEPT !.v6RoutesAdded = @ + 1]],
            toAdd, i + 1, clientID, adminDistance)

\* the loop over toAdd, from element i on; acc = [rt, thrown, stats].  A route
\* that fails validation throws out of the loop, before its own addRoute.
RECURSIVE addRoutes(_, _, _, _, _)
addRoutes(acc, toAdd, i, clientID, adminDistance) ==
  IF i > Len(toAdd) THEN acc
  ELSE IF toAdd[i].dest = Malformed THEN [acc EXCEPT !.thrown = TRUE]
  ELSE addRoutes(
         [rt |-> addRoute(acc.rt, toAdd[i].dest, clientID,
                          entryFrom(toAdd[i], adminDistance)),
          thrown |-> FALSE,
          stats |-> IF isV4(toAdd[i].dest)
                    THEN [acc.stats EXCEPT !.v4RoutesAdded = @ + 1]
                    ELSE [acc.stats EXCEPT !.v6RoutesAdded = @ + 1]],
         toAdd, i + 1, clientID, adminDistance)

\* the loop over toDelete, from element i on
RECURSIVE delRoutes(_, _, _, _)
delRoutes(acc, toDelete, i, clientID) ==
  IF i > Len(toDelete) THEN acc
  ELSE IF toDelete[i] = Malformed THEN [acc EXCEPT !.thrown = TRUE]
  ELSE delRoutes(
         [rt |-> delRoute(acc.rt, toDelete[i], clientID),
          thrown |-> FALSE,
          stats |-> IF isV4(toDelete[i])
                    THEN [acc.stats EXCEPT !.v4RoutesDeleted = @ + 1]
                    ELSE [acc.stats EXCEPT !.v6RoutesDeleted = @ + 1]],
         toDelete, i + 1, clientID)

\* the deletes loop runs before the adds loop
runUpdateAddsLast(rt, clientID, adminDistance, toAdd, toDelete, resetClientsRoutes) ==
  LET start == [rt |-> resetClient(rt, resetClientsRoutes, clientID),
                thrown |-> FALSE, stats |-> NoStats]
      deleted == delRoutes(start, toDelete, 1, clientID)
      added == IF deleted.thrown THEN deleted
               ELSE addRoutes(deleted, toAdd, 1, clientID, adminDistance)
  IN IF added.thrown THEN added
     ELSE [added EXCEPT !.rt = updateDone(added.rt)]

\* the deletes loop takes the candidate out but leaves the emptied route entry in
\* its map
runUpdateKeepsEmptied(rt, clientID, adminDistance, toAdd, toDelete, resetClientsRoutes) ==
  LET start == [rt |-> resetClient(rt, resetClientsRoutes, clientID),
                thrown |-> FALSE, stats |-> NoStats]
      added == addRoutes(start, toAdd, 1, clientID, adminDistance)
      deleted == IF added.thrown THEN added
                 ELSE delRoutes(added, toDelete, 1, clientID)
      done == updateDone(deleted.rt)
      emptied == [entries |-> EmptyMap, fwd |-> Unresolved]
  IN IF deleted.thrown THEN deleted
     ELSE [deleted EXCEPT !.rt =
             [v4NetworkToRoute |->
                [p \in DOMAIN added.rt.v4NetworkToRoute |->
                   IF p \in DOMAIN done.v4NetworkToRoute
                   THEN done.v4NetworkToRoute[p] ELSE emptied],
              v6NetworkToRoute |->
                [p \in DOMAIN added.rt.v6NetworkToRoute |->
                   IF p \in DOMAIN done.v6NetworkToRoute
                   THEN done.v6NetworkToRoute[p] ELSE emptied]]]

\* an update that adds nothing does not resolve again
runUpdateResolvesAfterAdds(rt, clientID, adminDistance, toAdd, toDelete, resetClientsRoutes) ==
  LET start == [rt |-> resetClient(rt, resetClientsRoutes, clientID),
                thrown |-> FALSE, stats |-> NoStats]
      added == addRoutes(start, toAdd, 1, clientID, adminDistance)
      deleted == IF added.thrown THEN added
                 ELSE delRoutes(added, toDelete, 1, clientID)
  IN IF deleted.thrown \/ toAdd = <<>> THEN deleted
     ELSE [deleted EXCEPT !.rt = updateDone(deleted.rt)]

\* the body of update between finding the VRF and building the FIB updater:
\* reset, adds, deletes, then updateDone; [rt, thrown, stats]
runUpdate(rt, clientID, adminDistance, toAdd, toDelete, resetClientsRoutes) ==
  LET start == [rt |-> resetClient(rt, resetClientsRoutes, clientID),
                thrown |-> FALSE, stats |-> NoStats]
      added == addRoutes(start, toAdd, 1, clientID, adminDistance)
      deleted == IF added.thrown THEN added
                 ELSE delRoutes(added, toDelete, 1, clientID)
  IN IF deleted.thrown THEN deleted
     ELSE [deleted EXCEPT !.rt = updateDone(deleted.rt)]

Ret(op, kind) == [op |-> op, kind |-> kind]

\* no call has finished since the running one began
NoRet == Ret("none", "none")

\* the snapshot the FIB updater hands to the apply step
snapshotOf(vrf) ==
  IF vrf \in DOMAIN routeTables THEN fibUpdater(routeTables[vrf]) ELSE EmptyMap

\* the Timer is started only once the writer lock is held
UpdateLockThenTimer(t) ==
  /\ pc[t] \in {"idle", "wlock"}
  /\ wlock(t)
  /\ \E routerID \in UpdateVrfs :
       call' = [call EXCEPT ![t] = [op |-> "update", routerID |-> routerID]]
  /\ lock' = t
  /\ pc' = [pc EXCEPT ![t] = "update"]
  /\ lastRet' = NoRet
  /\ timer' = [timer EXCEPT ![t] =
                 [start |-> now,
                  entered |-> IF pc[t] = "wlock" THEN @.entered ELSE now,
                  locked |-> now]]
  /\ handler' = IF pc[t] = "wlock" THEN handler
                ELSE [handler EXCEPT ![t] = NoHandler]
  /\ applyFnCalls' = <<>>
  /\ UNCHANGED <<routeTables, fib, snapshotLag>>
  /\ UNCHANGED <<bcmVars, now, saiVars, lastDuration, fullyConfigured, fibSynced>>

\* update takes the writer lock, right after it was entered and its Timer
\* started, or after it has waited for the lock
UpdateLock(t) ==
  /\ pc[t] \in {"idle", "wlock"}
  /\ wlock(t)
  /\ \E routerID \in UpdateVrfs :
       call' = [call EXCEPT ![t] = [op |-> "update", routerID |-> routerID]]
  /\ lock' = t
  /\ pc' = [pc EXCEPT ![t] = "update"]
  /\ lastRet' = NoRet
  /\ timer' = [timer EXCEPT ![t] =
                 IF pc[t] = "wlock" THEN [@ EXCEPT !.locked = now]
                 ELSE [start |-> now, entered |-> now, locked |-> now]]
  /\ handler' = IF pc[t] = "wlock" THEN handler
                ELSE [handler EXCEPT ![t] = NoHandler]
  /\ applyFnCalls' = <<>>
  /\ UNCHANGED <<routeTables, fib, snapshotLag>>
  /\ UNCHANGED <<bcmVars, now, saiVars, lastDuration, fullyConfigured, fibSynced>>

\* the missing VRF is created on the way out
UpdateNoVrfCreatesTable(t) ==
  /\ pc[t] = "update"
  /\ call[t].routerID \notin DOMAIN routeTables
  /\ routeTables' = [vrf \in DOMAIN routeTables \cup {call[t].routerID} |->
                       IF vrf \in DOMAIN routeTables THEN routeTables[vrf]
                       ELSE EmptyRouteTable]
  /\ lastRet' = Ret("update", "vrf not configured")
  /\ lock' = Free
  /\ pc' = [pc EXCEPT ![t] = "idle"]
  /\ call' = [call EXCEPT ![t] = NoCall]
  /\ UNCHANGED <<fib, snapshotLag>>
  /\ UNCHANGED <<bcmVars, clockVars, saiVars, swVars>>

\* throw FbossError("VRF ", routerID, " not configured")
UpdateNoVrf(t) ==
  /\ pc[t] = "update"
  /\ call[t].routerID \notin DOMAIN routeTables
  /\ lastRet' = Ret("update", "vrf not configured")
  /\ lock' = Free
  /\ pc' = [pc EXCEPT ![t] = "idle"]
  /\ call' = [call EXCEPT ![t] = NoCall]
  /\ UNCHANGED <<routeTables, fib, snapshotLag>>
  /\ UNCHANGED <<bcmVars, clockVars, saiVars, swVars>>

\* the lock is dropped between the commit and the apply step
UpdateCommitUnlocks(t, args) ==
  /\ pc[t] = "update"
  /\ call[t].routerID \in DOMAIN routeTables
  /\ \E arg \in args, resetClientsRoutes \in BOOLEAN :
       LET vrf == call[t].routerID
           r == runUpdate(routeTables[vrf], arg.clientID,
                          clientIdToAdminDistance(arg.clientID),
                          arg.toAdd, arg.toDelete, resetClientsRoutes)
       IN /\ admits(handler[t], arg, resetClientsRoutes)
          /\ ~r.thrown
          /\ routeTables' = [routeTables EXCEPT ![vrf] = r.rt]
          /\ snapshotLag' = [snapshotLag EXCEPT ![vrf] = @ + 1]
          /\ call' = [call EXCEPT ![t] =
                        [op |-> "update", routerID |-> vrf,
                         clientID |-> arg.clientID,
                         toAdd |-> arg.toAdd, toDelete |-> arg.toDelete,
                         resetClientsRoutes |-> resetClientsRoutes,
                         stats |-> r.stats]]
  /\ lock' = Free
  /\ pc' = [pc EXCEPT ![t] = "apply"]
  /\ UNCHANGED <<lastRet, fib>>
  /\ UNCHANGED <<bcmVars, clockVars, saiVars, swVars>>

\* the updater is handed the maps of every VRF
UpdateCommitAllVrfs(t, args) ==
  /\ pc[t] = "update"
  /\ call[t].routerID \in DOMAIN routeTables
  /\ \E arg \in args, resetClientsRoutes \in BOOLEAN :
       LET vrf == call[t].routerID
           r == runUpdate(routeTables[vrf], arg.clientID,
                          clientIdToAdminDistance(arg.clientID),
                          arg.toAdd, arg.toDelete, resetClientsRoutes)
       IN /\ admits(handler[t], arg, resetClientsRoutes)
          /\ ~r.thrown
          /\ routeTables' = [v \in DOMAIN routeTables |-> r.rt]
          /\ snapshotLag' = [snapshotLag EXCEPT ![vrf] = @ + 1]
          /\ call' = [call EXCEPT ![t] =
                        [op |-> "update", routerID |-> vrf,
                         clientID |-> arg.clientID,
                         toAdd |-> arg.toAdd, toDelete |-> arg.toDelete,
                         resetClientsRoutes |-> resetClientsRoutes,
                         stats |-> r.stats]]
  /\ pc' = [pc EXCEPT ![t] = "apply"]
  /\ UNCHANGED <<lock, lastRet, fib>>
  /\ UNCHANGED <<bcmVars, clockVars, saiVars, swVars>>

\* reset, adds, deletes and updateDone all succeed
UpdateCommit(t, args) ==
  /\ pc[t] = "update"
  /\ call[t].routerID \in DOMAIN routeTables
  /\ \E arg \in args, resetClientsRoutes \in BOOLEAN :
       LET clientID == arg.clientID
           toAdd == arg.toAdd
           toDelete == arg.toDelete
           vrf == call[t].routerID
           r == runUpdate(routeTables[vrf], clientID,
                          clientIdToAdminDistance(clientID),
                          toAdd, toDelete, resetClientsRoutes)
       IN /\ admits(handler[t], arg, resetClientsRoutes)
          /\ ~r.thrown
          /\ routeTables' = [routeTables EXCEPT ![vrf] = r.rt]
          /\ snapshotLag' = [snapshotLag EXCEPT ![vrf] = @ + 1]
          /\ call' = [call EXCEPT ![t] =
                        [op |-> "update", routerID |-> vrf, clientID |-> clientID,
                         toAdd |-> toAdd, toDelete |-> toDelete,
                         resetClientsRoutes |-> resetClientsRoutes,
                         stats |-> r.stats]]
  /\ pc' = [pc EXCEPT ![t] = "apply"]
  /\ UNCHANGED <<lock, lastRet, fib>>
  /\ UNCHANGED <<bcmVars, clockVars, saiVars, swVars>>

\* a route of toAdd or toDelete fails validation: the exception leaves update
UpdateThrows(t, args) ==
  /\ pc[t] = "update"
  /\ call[t].routerID \in DOMAIN routeTables
  /\ \E arg \in args, resetClientsRoutes \in BOOLEAN :
       LET clientID == arg.clientID
           toAdd == arg.toAdd
           toDelete == arg.toDelete
           vrf == call[t].routerID
           r == runUpdate(routeTables[vrf], clientID,
                          clientIdToAdminDistance(clientID),
                          toAdd, toDelete, resetClientsRoutes)
       IN /\ admits(handler[t], arg, resetClientsRoutes)
          /\ r.thrown
          /\ routeTables' = [routeTables EXCEPT ![vrf] = r.rt]
  /\ lastRet' = Ret("update", "invalid route")
  /\ lock' = Free
  /\ pc' = [pc EXCEPT ![t] = "idle"]
  /\ call' = [call EXCEPT ![t] = NoCall]
  /\ UNCHANGED <<fib, snapshotLag>>
  /\ UNCHANGED <<bcmVars, clockVars, saiVars, swVars>>

\* every caller's apply step is labelled "update"
UpdateApplyFixedType(t) ==
  /\ pc[t] = "apply"
  /\ fib' = [fib EXCEPT ![call[t].routerID] = snapshotOf(call[t].routerID)]
  /\ snapshotLag' = [snapshotLag EXCEPT ![call[t].routerID] = 0]
  /\ lastRet' = Ret("update", "ok")
  /\ lock' = Free
  /\ pc' = [pc EXCEPT ![t] = IF handler[t] = "syncFib" THEN "synced" ELSE "idle"]
  /\ call' = [call EXCEPT ![t] = NoCall]
  /\ applyFnCalls' = Append(applyFnCalls, [updateType |-> "update"])
  /\ lastDuration' = now - timer[t].start
  /\ UNCHANGED routeTables
  /\ UNCHANGED <<bcmVars, now, saiVars, timer, fullyConfigured, fibSynced, handler>>

\* updateStateBlockingFn(updateType, fibUpdater) returns; return stats, which
\* releases the lock and then stops the Timer. syncFib has one more step to
\* take after update has returned
UpdateApply(t) ==
  /\ pc[t] = "apply"
  /\ fib' = [fib EXCEPT ![call[t].routerID] = snapshotOf(call[t].routerID)]
  /\ snapshotLag' = [snapshotLag EXCEPT ![call[t].routerID] = 0]
  /\ lastRet' = Ret("update", "ok")
  /\ lock' = Free
  /\ pc' = [pc EXCEPT ![t] = IF handler[t] = "syncFib" THEN "synced" ELSE "idle"]
  /\ call' = [call EXCEPT ![t] = NoCall]
  /\ applyFnCalls' = Append(applyFnCalls, [updateType |-> updateTypeOf(handler[t])])
  /\ lastDuration' = now - timer[t].start
  /\ UNCHANGED routeTables
  /\ UNCHANGED <<bcmVars, now, saiVars, timer, fullyConfigured, fibSynced, handler>>

\* the failed apply step takes the client's routes back out
UpdateApplyThrowsRollsBack(t) ==
  /\ pc[t] = "apply"
  /\ routeTables' =
       [routeTables EXCEPT ![call[t].routerID] =
          updateDone(removeAllRoutesForClient(@, call[t].clientID))]
  /\ snapshotLag' = [snapshotLag EXCEPT ![call[t].routerID] = 0]
  /\ lastRet' = Ret("update", "apply failed")
  /\ lock' = Free
  /\ pc' = [pc EXCEPT ![t] = "idle"]
  /\ call' = [call EXCEPT ![t] = NoCall]
  /\ applyFnCalls' = Append(applyFnCalls, [updateType |-> updateTypeOf(handler[t])])
  /\ UNCHANGED fib
  /\ UNCHANGED <<bcmVars, clockVars, saiVars, fullyConfigured, fibSynced, handler>>

\* the exception of updateStateBlockingFn leaves update with the lock held
UpdateApplyThrowsKeepsLock(t) ==
  /\ pc[t] = "apply"
  /\ snapshotLag' = [snapshotLag EXCEPT ![call[t].routerID] = 0]
  /\ lastRet' = Ret("update", "apply failed")
  /\ pc' = [pc EXCEPT ![t] = "idle"]
  /\ call' = [call EXCEPT ![t] = NoCall]
  /\ applyFnCalls' = Append(applyFnCalls, [updateType |-> updateTypeOf(handler[t])])
  /\ UNCHANGED <<routeTables, fib, lock>>
  /\ UNCHANGED <<bcmVars, clockVars, saiVars, fullyConfigured, fibSynced, handler>>

\* updateStateBlockingFn throws
UpdateApplyThrows(t) ==
  /\ pc[t] = "apply"
  /\ snapshotLag' = [snapshotLag EXCEPT ![call[t].routerID] = 0]
  /\ lastRet' = Ret("update", "apply failed")
  /\ lock' = Free
  /\ pc' = [pc EXCEPT ![t] = "idle"]
  /\ call' = [call EXCEPT ![t] = NoCall]
  /\ applyFnCalls' = Append(applyFnCalls, [updateType |-> updateTypeOf(handler[t])])
  /\ UNCHANGED <<routeTables, fib>>
  /\ UNCHANGED <<bcmVars, clockVars, saiVars, fullyConfigured, fibSynced, handler>>

----------------------------------------------------------------------------
(* RoutingInformationBase::reconfigure and ConfigApplier *)

kIntf == [interfaceID |-> "intf1", endpoint |-> kGateway]

\* the interface routes a configuration may give one VRF: network -> (interface, endpoint)
InterfaceRouteMaps == {EmptyMap, [p \in {kNet4} |-> kIntf]}

StaticRoutes == [routerID : VrfIds, prefix : {kNet4}, nexthops : {{kGateway}}]

\* static routes whose prefix folly::IPAddress::createNetwork rejects
MalformedStaticRoutes ==
  [routerID : VrfIds, prefix : {Malformed}, nexthops : {{kGateway}}]

Configs ==
  UNION {[interfaceRoutes : [keys -> InterfaceRouteMaps],
          staticRoutesToCpu : SeqsUpTo(StaticRoutes, MaxStatic),
          staticRoutesToNull : SeqsUpTo(StaticRoutes, MaxStatic),
          staticRoutesWithNextHops :
            SeqsUpTo(StaticRoutes \cup MalformedStaticRoutes, MaxStatic)] :
         keys \in SUBSET VrfIds}

\* every VRF of the configuration starts over from an empty table
constructRouteTablesFresh(lockedRouteTables, configRouterIDToInterfaceRoutes) ==
  [configVrf \in DOMAIN configRouterIDToInterfaceRoutes |-> EmptyRouteTable]

constructRouteTables(lockedRouteTables, configRouterIDToInterfaceRoutes) ==
  [configVrf \in DOMAIN configRouterIDToInterfaceRoutes |->
     IF configVrf \notin DOMAIN lockedRouteTables THEN EmptyRouteTable
     ELSE lockedRouteTables[configVrf]]

staticEntry(kind, staticRoute) ==
  CASE kind = "cpu" -> createToCpu
    [] kind = "drop" -> createDrop
    [] kind = "nhops" -> fromStaticRoute(staticRoute)

\* the loop takes the static routes of every VRF into the table it works on
RECURSIVE addStaticRoutesOfAnyVrf(_, _, _, _, _)
addStaticRoutesOfAnyVrf(acc, vrf, range, i, kind) ==
  IF acc.thrown \/ i > Len(range) THEN acc
  ELSE IF range[i].prefix = Malformed THEN [acc EXCEPT !.thrown = TRUE]
  ELSE addStaticRoutesOfAnyVrf(
         [acc EXCEPT !.rt = addRoute(@, range[i].prefix, STATIC_ROUTE,
                                     staticEntry(kind, range[i]))],
         vrf, range, i + 1, kind)

\* one loop over a list of static routes, from element i on, skipping other
\* VRFs; acc = [rt, thrown].  createNetwork throws on a malformed prefix, before
\* that route's addRoute.
RECURSIVE addStaticRoutes(_, _, _, _, _)
addStaticRoutes(acc, vrf, range, i, kind) ==
  IF acc.thrown \/ i > Len(range) THEN acc
  ELSE IF range[i].routerID # vrf
  THEN addStaticRoutes(acc, vrf, range, i + 1, kind)
  ELSE IF range[i].prefix = Malformed THEN [acc EXCEPT !.thrown = TRUE]
  ELSE addStaticRoutes(
         [acc EXCEPT !.rt = addRoute(@, range[i].prefix, STATIC_ROUTE,
                                     staticEntry(kind, range[i]))],
         vrf, range, i + 1, kind)

RECURSIVE addInterfaceRoutesFrom(_, _, _)
addInterfaceRoutesFrom(rt, directlyConnected, todo) ==
  IF todo = {} THEN rt
  ELSE LET network == CHOOSE n \in todo : TRUE
       IN addInterfaceRoutesFrom(
            addInterfaceRoute(rt, network, directlyConnected[network].endpoint,
                              directlyConnected[network].interfaceID),
            directlyConnected, todo \ {network})

addInterfaceRoutes(rt, directlyConnected) ==
  addInterfaceRoutesFrom(rt, directlyConnected, DOMAIN directlyConnected)

\* the static routes of the previous configuration are not removed first
updateRibKeepsStatic(rt, vrf, cfg) ==
  LET noStatic == [rt |-> rt, thrown |-> FALSE]
      cpu == addStaticRoutes(noStatic, vrf, cfg.staticRoutesToCpu, 1, "cpu")
      drop == addStaticRoutes(cpu, vrf, cfg.staticRoutesToNull, 1, "drop")
      static == addStaticRoutes(drop, vrf, cfg.staticRoutesWithNextHops, 1, "nhops")
      noIntf == removeAllRoutesForClient(static.rt, INTERFACE_ROUTE)
      intf == addInterfaceRoutes(noIntf, cfg.interfaceRoutes[vrf])
  IN IF static.thrown THEN static
     ELSE [rt |-> updateDone(addLinkLocalRoutes(intf)), thrown |-> FALSE]

\* the link-local routes are not seeded
updateRibNoLinkLocal(rt, vrf, cfg) ==
  LET noStatic == [rt |-> removeAllRoutesForClient(rt, STATIC_ROUTE),
                   thrown |-> FALSE]
      cpu == addStaticRoutes(noStatic, vrf, cfg.staticRoutesToCpu, 1, "cpu")
      drop == addStaticRoutes(cpu, vrf, cfg.staticRoutesToNull, 1, "drop")
      static == addStaticRoutes(drop, vrf, cfg.staticRoutesWithNextHops, 1, "nhops")
      noIntf == removeAllRoutesForClient(static.rt, INTERFACE_ROUTE)
      intf == addInterfaceRoutes(noIntf, cfg.interfaceRoutes[vrf])
  IN IF static.thrown THEN static
     ELSE [rt |-> updateDone(intf), thrown |-> FALSE]

\* the routes with next hops are applied first and the to-null routes last
updateRibNullLast(rt, vrf, cfg) ==
  LET noStatic == [rt |-> removeAllRoutesForClient(rt, STATIC_ROUTE),
                   thrown |-> FALSE]
      static == addStaticRoutes(noStatic, vrf, cfg.staticRoutesWithNextHops, 1, "nhops")
      cpu == addStaticRoutes(static, vrf, cfg.staticRoutesToCpu, 1, "cpu")
      drop == addStaticRoutes(cpu, vrf, cfg.staticRoutesToNull, 1, "drop")
      noIntf == removeAllRoutesForClient(drop.rt, INTERFACE_ROUTE)
      intf == addInterfaceRoutes(noIntf, cfg.interfaceRoutes[vrf])
  IN IF drop.thrown THEN drop
     ELSE [rt |-> updateDone(addLinkLocalRoutes(intf)), thrown |-> FALSE]

\* ConfigApplier::updateRibAndFib up to updateDone: [rt, thrown], the route
\* table of vrf and whether a static route threw on the way
updateRib(rt, vrf, cfg) ==
  LET noStatic == [rt |-> removeAllRoutesForClient(rt, STATIC_ROUTE),
                   thrown |-> FALSE]
      cpu == addStaticRoutes(noStatic, vrf, cfg.staticRoutesToCpu, 1, "cpu")
      drop == addStaticRoutes(cpu, vrf, cfg.staticRoutesToNull, 1, "drop")
      static == addStaticRoutes(drop, vrf, cfg.staticRoutesWithNextHops, 1, "nhops")
      noIntf == removeAllRoutesForClient(static.rt, INTERFACE_ROUTE)
      intf == addInterfaceRoutes(noIntf, cfg.interfaceRoutes[vrf])
  IN IF static.thrown THEN static
     ELSE [rt |-> updateDone(addLinkLocalRoutes(intf)), thrown |-> FALSE]

\* the loop of reconfigure over the VRFs of the new tables, in RouterID order:
\* acc = [rt, fib, lag, thrown]; each VRF's updateRibAndFib changes its table
\* and then its FIB, and an exception ends the loop where it stands
RECURSIVE updateRibAndFib(_, _, _)
updateRibAndFib(acc, todo, cfg) ==
  IF acc.thrown \/ todo = {} THEN acc
  ELSE LET vrf == CHOOSE v \in todo : \A w \in todo : v <= w
           r == updateRib(acc.rt[vrf], vrf, cfg)
       IN IF r.thrown
          THEN [acc EXCEPT !.rt[vrf] = r.rt, !.thrown = TRUE]
          ELSE updateRibAndFib(
                 [rt |-> [acc.rt EXCEPT ![vrf] = r.rt],
                  fib |-> [acc.fib EXCEPT ![vrf] = fibUpdater(r.rt)],
                  lag |-> [acc.lag EXCEPT ![vrf] = 0],
                  thrown |-> FALSE],
                 todo \ {vrf}, cfg)

\* the body of reconfigure under the lock: the VRF set is replaced, then every
\* VRF's ConfigApplier runs updateRibAndFib
runReconfigure(cfg) ==
  LET newRouteTables == constructRouteTables(routeTables, cfg.interfaceRoutes)
  IN updateRibAndFib(
       [rt |-> newRouteTables, fib |-> fib, lag |-> snapshotLag, thrown |-> FALSE],
       DOMAIN newRouteTables, cfg)

\* reconfigure is entered with a configuration and takes the writer lock
ReconfigureLock(t, configs) ==
  /\ pc[t] \in {"idle", "rwlock"}
  /\ wlock(t)
  /\ lock' = t
  /\ pc' = [pc EXCEPT ![t] = "reconfigure"]
  /\ \E cfg \in configs :
       call' = [call EXCEPT ![t] = [op |-> "reconfigure", cfg |-> cfg]]
  /\ lastRet' = NoRet
  /\ applyFnCalls' = <<>>
  /\ UNCHANGED <<routeTables, fib, snapshotLag>>
  /\ UNCHANGED <<bcmVars, clockVars, saiVars, fullyConfigured, fibSynced, handler>>

\* reconfigure runs to its end
Reconfigure(t) ==
  /\ pc[t] = "reconfigure"
  /\ \E r \in {runReconfigure(call[t].cfg)} :
        /\ ~r.thrown
        /\ routeTables' = r.rt
        /\ fib' = r.fib
        /\ snapshotLag' = r.lag
  /\ lastRet' = Ret("reconfigure", "ok")
  /\ lock' = Free
  /\ pc' = [pc EXCEPT ![t] = "idle"]
  /\ call' = [call EXCEPT ![t] = NoCall]
  /\ UNCHANGED <<bcmVars, clockVars, saiVars, swVars>>

\* a static route of some VRF has a malformed prefix: the exception leaves
\* reconfigure
ReconfigureThrows(t) ==
  /\ pc[t] = "reconfigure"
  /\ \E r \in {runReconfigure(call[t].cfg)} :
        /\ r.thrown
        /\ routeTables' = r.rt
        /\ fib' = r.fib
        /\ snapshotLag' = r.lag
  /\ lastRet' = Ret("reconfigure", "invalid route")
  /\ lock' = Free
  /\ pc' = [pc EXCEPT ![t] = "idle"]
  /\ call' = [call EXCEPT ![t] = NoCall]
  /\ UNCHANGED <<bcmVars, clockVars, saiVars, swVars>>

----------------------------------------------------------------------------
(* The specification *)

Init ==
  /\ routeTables = EmptyMap
  /\ lock = Free
  /\ pc = [t \in Threads |-> "idle"]
  /\ call = [t \in Threads |-> NoCall]
  /\ lastRet = NoRet
  /\ fib = [vrf \in VrfIds |-> EmptyMap]
  /\ snapshotLag = [vrf \in VrfIds |-> 0]
  /\ bcmFib = EmptyMap
  /\ multiPathNextHopTable = EmptyMap
  /\ hostRouteEntry = EmptyMap
  /\ now = 0
  /\ timer = [t \in Threads |-> [start |-> 0, entered |-> 0, locked |-> 0]]
  /\ lastDuration = 0
  /\ fullyConfigured = FALSE
  /\ fibSynced = FALSE
  /\ handler = [t \in Threads |-> NoHandler]
  /\ applyFnCalls = <<>>
  /\ vlans_ = EmptyMap
  /\ vlanSaiIds_ = EmptyMap
  /\ portVlan = [port \in KnownPorts |-> 0]
  /\ swVlans = EmptyMap

\* a client's calls of update over the destinations dests
ArgsOf(clientID, dests) ==
  [clientID : {clientID},
   toAdd : SeqsUpTo([dest : dests \cup {Malformed}, nextHops : {{kGateway}}], MaxAdd),
   toDelete : SeqsUpTo(dests \cup {Malformed}, MaxDel)]

\* the arguments update is called with: BGP announces any destination, the
\* link-local client the IPv6 link-local network alone
UpdateArgs ==
  ArgsOf(BGPD, UpdateDests) \cup ArgsOf(LINK_LOCAL_ROUTE, {kIPv6LinkLocal})

\* the configurations without static routes and with interface routes in the
\* default VRF alone
BasicConfigs ==
  {cfg \in Configs :
     /\ cfg.staticRoutesToCpu = <<>> /\ cfg.staticRoutesToNull = <<>>
     /\ cfg.staticRoutesWithNextHops = <<>>
     /\ \A vrf \in DOMAIN cfg.interfaceRoutes \ {DefaultVrf} :
          cfg.interfaceRoutes[vrf] = EmptyMap}

Next ==
  \E t \in Threads :
    \/ UpdateLock(t)
    \/ UpdateNoVrf(t)
    \/ UpdateCommit(t, UpdateArgs)
    \/ UpdateThrows(t, UpdateArgs)
    \/ UpdateApply(t)
    \/ UpdateApplyThrows(t)
    \/ ReconfigureLock(t, BasicConfigs)
    \/ Reconfigure(t)

Spec == Init /\ [][Next]_vars

----------------------------------------------------------------------------
(* The specification of reconfigure with static routes: one thread applies any
   configuration, static routes with malformed prefixes included, and BGP adds
   and withdraws one route in between *)

\* the thread that runs the configuration changes
ConfigThreads == {"t1"}

\* BGP announces 10.0.0.0/24, or withdraws it
ConfigUpdateArgs ==
  {[clientID |-> BGPD,
    toAdd |-> <<[dest |-> kNet4, nextHops |-> {kGateway}]>>, toDelete |-> <<>>],
   [clientID |-> BGPD, toAdd |-> <<>>, toDelete |-> <<kNet4>>]}

\* the configurations that keep the default VRF, give interface routes to it
\* alone, and name another VRF only in the list of static routes with next hops
StaticConfigs ==
  UNION {[interfaceRoutes :
            {m \in [keys -> InterfaceRouteMaps] :
               \A vrf \in keys \ {DefaultVrf} : m[vrf] = EmptyMap},
          staticRoutesToCpu :
            SeqsUpTo({r \in StaticRoutes : r.routerID = DefaultVrf}, MaxStatic),
          staticRoutesToNull :
            SeqsUpTo({r \in StaticRoutes : r.routerID = DefaultVrf}, MaxStatic),
          staticRoutesWithNextHops :
            SeqsUpTo(StaticRoutes \cup MalformedStaticRoutes, MaxStatic)] :
         keys \in {k \in SUBSET VrfIds : DefaultVrf \in k}}

NextConfig ==
  \E t \in ConfigThreads :
    \/ UpdateLock(t)
    \/ UpdateNoVrf(t)
    \/ UpdateCommit(t, ConfigUpdateArgs)
    \/ UpdateApply(t)
    \/ ReconfigureLock(t, StaticConfigs)
    \/ Reconfigure(t)
    \/ ReconfigureThrows(t)

SpecConfig == Init /\ [][NextConfig]_vars

----------------------------------------------------------------------------
(* The specification of recursive resolution: in the default VRF, 8.8.8.8/32
   goes via 20.0.0.1, 20.0.0.0/8 via an address of 10.0.0.0/24, and
   10.0.0.0/24 is connected when the configuration says so *)

unicastRoute(dest, gateway) == [dest |-> dest, nextHops |-> {gateway}]

\* BGP announces 20.0.0.0/8 (once, or twice in one call) and 8.8.8.8/32 and
\* withdraws 20.0.0.0/8; the link-local client announces 10.0.0.0/24
ResolveUpdateArgs ==
  {[clientID |-> BGPD, toAdd |-> <<unicastRoute(kNet8, kGateway)>>, toDelete |-> <<>>],
   [clientID |-> BGPD,
    toAdd |-> <<unicastRoute(kNet8, kGateway), unicastRoute(kNet8, kGateway)>>,
    toDelete |-> <<>>],
   [clientID |-> BGPD, toAdd |-> <<unicastRoute(kHost, kGateway2)>>, toDelete |-> <<>>],
   [clientID |-> BGPD, toAdd |-> <<>>, toDelete |-> <<kNet8>>],
   [clientID |-> LINK_LOCAL_ROUTE,
    toAdd |-> <<unicastRoute(kNet4, kGateway2)>>, toDelete |-> <<>>]}

\* the configurations of the default VRF alone: 10.0.0.0/24 connected or not,
\* 20.0.0.0/8 a static route via 10.0.0.2 or not
ResolveConfigs ==
  [interfaceRoutes : [{DefaultVrf} -> InterfaceRouteMaps],
   staticRoutesToCpu : {<<>>},
   staticRoutesToNull : {<<>>},
   staticRoutesWithNextHops :
     {<<>>, <<[routerID |-> DefaultVrf, prefix |-> kNet8, nexthops |-> {kGatewayB}]>>}]

NextResolve ==
  \E t \in ConfigThreads :
    \/ UpdateLock(t)
    \/ UpdateNoVrf(t)
    \/ UpdateCommit(t, ResolveUpdateArgs)
    \/ UpdateApply(t)
    \/ ReconfigureLock(t, ResolveConfigs)
    \/ Reconfigure(t)

SpecResolve == Init /\ [][NextResolve]_vars

----------------------------------------------------------------------------
(* The Timer of update: the steady clock advances between the steps of two
   threads that call update and reconfigure, so that a call may wait for the
   writer lock while the other holds it *)

\* the steady clock is read up to this value
MaxClock == 2

\* time passes
Tick ==
  /\ now < MaxClock
  /\ now' = now + 1
  /\ UNCHANGED <<ribVars, bcmVars, timer, lastDuration, saiVars, swVars>>

\* update is entered: stats is declared and the Timer constructed, the writer
\* lock is not yet requested
UpdateEnter(t) ==
  /\ pc[t] = "idle"
  /\ pc' = [pc EXCEPT ![t] = "wlock"]
  /\ timer' = [timer EXCEPT ![t] = [start |-> now, entered |-> now, locked |-> now]]
  /\ handler' = [handler EXCEPT ![t] = NoHandler]
  /\ UNCHANGED <<routeTables, lock, call, lastRet, fib, snapshotLag>>
  /\ UNCHANGED <<bcmVars, now, saiVars, lastDuration, fullyConfigured, fibSynced, applyFnCalls>>

\* wlock() returns to an update that was entered before
UpdateWlock(t) ==
  /\ pc[t] = "wlock"
  /\ UpdateLock(t)

\* BGP announces 10.0.0.0/24
TimerUpdateArgs ==
  {[clientID |-> BGPD, toAdd |-> <<unicastRoute(kNet4, kGateway)>>, toDelete |-> <<>>]}

\* the configuration of the default VRF without any route
TimerConfigs ==
  {[interfaceRoutes |-> [vrf \in {DefaultVrf} |-> EmptyMap],
    staticRoutesToCpu |-> <<>>,
    staticRoutesToNull |-> <<>>,
    staticRoutesWithNextHops |-> <<>>]}

NextTimer ==
  \/ Tick
  \/ \E t \in Threads :
       \/ UpdateEnter(t)
       \/ UpdateWlock(t)
       \/ UpdateNoVrf(t)
       \/ UpdateCommit(t, TimerUpdateArgs)
       \/ UpdateApply(t)
       \/ ReconfigureLock(t, TimerConfigs)
       \/ Reconfigure(t)

SpecTimer == Init /\ [][NextTimer]_vars

----------------------------------------------------------------------------
(* The Thrift handler in front of the RIB: addUnicastRoutes, deleteUnicastRoutes
   and syncFib of two clients' threads, on a switch that becomes configured at
   some point *)

\* SwSwitch reaches the state in which isFullyConfigured() holds
SwitchConfigured ==
  /\ ~fullyConfigured
  /\ fullyConfigured' = TRUE
  /\ UNCHANGED <<ribVars, bcmVars, clockVars, saiVars, fibSynced, handler, applyFnCalls>>

\* ensureConfigured or ensureFibSynced throws: the handler is left before
\* update is called
ThriftFails(t, h) ==
  /\ pc[t] = "idle"
  /\ ~fullyConfigured \/ (h # "syncFib" /\ ~fibSynced)
  /\ lastRet' = Ret(h, IF ~fullyConfigured THEN "not fully configured"
                       ELSE "FIB not synced")
  /\ UNCHANGED <<routeTables, lock, pc, call, fib, snapshotLag>>
  /\ UNCHANGED <<bcmVars, clockVars, saiVars, swVars>>

\* a handler that never asks whether the FIB was synced
ThriftEnterUnsynced(t, h) ==
  /\ pc[t] = "idle"
  /\ fullyConfigured
  /\ pc' = [pc EXCEPT ![t] = "wlock"]
  /\ timer' = [timer EXCEPT ![t] = [start |-> now, entered |-> now, locked |-> now]]
  /\ handler' = [handler EXCEPT ![t] = h]
  /\ UNCHANGED <<routeTables, lock, call, lastRet, fib, snapshotLag>>
  /\ UNCHANGED <<bcmVars, now, saiVars, lastDuration, fullyConfigured, fibSynced, applyFnCalls>>

\* the checks of handler h pass and it calls update, which constructs its
\* Timer and requests the writer lock
ThriftEnter(t, h) ==
  /\ pc[t] = "idle"
  /\ fullyConfigured
  /\ h # "syncFib" => fibSynced
  /\ pc' = [pc EXCEPT ![t] = "wlock"]
  /\ timer' = [timer EXCEPT ![t] = [start |-> now, entered |-> now, locked |-> now]]
  /\ handler' = [handler EXCEPT ![t] = h]
  /\ UNCHANGED <<routeTables, lock, call, lastRet, fib, snapshotLag>>
  /\ UNCHANGED <<bcmVars, now, saiVars, lastDuration, fullyConfigured, fibSynced, applyFnCalls>>

\* update has returned to syncFib, which marks the FIB synced
SyncFibDone(t) ==
  /\ pc[t] = "synced"
  /\ fibSynced' = TRUE
  /\ pc' = [pc EXCEPT ![t] = "idle"]
  /\ UNCHANGED <<routeTables, lock, call, lastRet, fib, snapshotLag>>
  /\ UNCHANGED <<bcmVars, clockVars, saiVars, fullyConfigured, handler, applyFnCalls>>

\* what the clients send: BGP routes to 10.0.0.0/24, a malformed destination
\* included, and the prefixes to withdraw
ThriftArgs == ArgsOf(BGPD, {kNet4})

NextThrift ==
  \/ SwitchConfigured
  \/ \E t \in Threads :
       \/ \E h \in Handlers : ThriftFails(t, h)
       \/ \E h \in Handlers : ThriftEnter(t, h)
       \/ UpdateWlock(t)
       \/ UpdateNoVrf(t)
       \/ UpdateCommit(t, ThriftArgs)
       \/ UpdateThrows(t, ThriftArgs)
       \/ UpdateApply(t)
       \/ UpdateApplyThrows(t)
       \/ SyncFibDone(t)
       \/ ReconfigureLock(t, TimerConfigs)
       \/ Reconfigure(t)

SpecThrift == Init /\ [][NextThrift]_vars

----------------------------------------------------------------------------
(* Progress of the calls: update, syncFib and reconfigure of two threads, each
   call first waiting for the writer lock. A thread that holds the lock takes
   its next step, an apply function that was invoked returns or throws, and a
   thread waiting for a lock that is released again and again gets it *)

\* reconfigure is entered; the writer lock is not yet requested
ReconfigureEnter(t) ==
  /\ pc[t] = "idle"
  /\ pc' = [pc EXCEPT ![t] = "rwlock"]
  /\ UNCHANGED <<routeTables, lock, call, lastRet, fib, snapshotLag>>
  /\ UNCHANGED <<bcmVars, clockVars, saiVars, swVars>>

\* wlock() returns to a reconfigure that was entered before
ReconfigureWlock(t) ==
  /\ pc[t] = "rwlock"
  /\ ReconfigureLock(t, TimerConfigs)

\* BGP announces 10.0.0.0/24, or a destination that fails validation
LiveArgs ==
  TimerUpdateArgs \cup
    {[clientID |-> BGPD, toAdd |-> <<unicastRoute(Malformed, kGateway)>>,
      toDelete |-> <<>>]}

\* wlock() returns to the call thread t has entered
acquires(t) == UpdateWlock(t) \/ ReconfigureWlock(t)

\* the steps of thread t between taking the lock and invoking the apply
\* function or leaving reconfigure, and the last step of its syncFib
runs(t) ==
  \/ UpdateNoVrf(t)
  \/ UpdateCommit(t, LiveArgs)
  \/ UpdateThrows(t, LiveArgs)
  \/ Reconfigure(t)
  \/ SyncFibDone(t)

\* the guards of the steps of runs(t), one line for each: runs(t) can take a
\* step exactly in the states of canRun(t)
canRun(t) ==
  \/ pc[t] = "update" /\ call[t].routerID \notin DOMAIN routeTables
  \/ /\ pc[t] = "update" /\ call[t].routerID \in DOMAIN routeTables
     /\ \E arg \in LiveArgs, resetClientsRoutes \in BOOLEAN :
          /\ admits(handler[t], arg, resetClientsRoutes)
          /\ ~runUpdate(routeTables[call[t].routerID], arg.clientID,
                        clientIdToAdminDistance(arg.clientID), arg.toAdd,
                        arg.toDelete, resetClientsRoutes).thrown
  \/ /\ pc[t] = "update" /\ call[t].routerID \in DOMAIN routeTables
     /\ \E arg \in LiveArgs, resetClientsRoutes \in BOOLEAN :
          /\ admits(handler[t], arg, resetClientsRoutes)
          /\ runUpdate(routeTables[call[t].routerID], arg.clientID,
                       clientIdToAdminDistance(arg.clientID), arg.toAdd,
                       arg.toDelete, resetClientsRoutes).thrown
  \/ pc[t] = "reconfigure" /\ ~runReconfigure(call[t].cfg).thrown
  \/ pc[t] = "synced"

\* the apply function invoked by thread t returns or throws
applyFnEnds(t) == UpdateApply(t) \/ UpdateApplyThrows(t)

NextLive ==
  \/ SwitchConfigured
  \/ \E t \in Threads :
       \/ UpdateEnter(t)
       \/ ThriftEnter(t, "syncFib")
       \/ ReconfigureEnter(t)
       \/ acquires(t)
       \/ runs(t)
       \/ applyFnEnds(t)

\* weak fairness of every step of a thread that holds the lock or ends its
\* syncFib (that of runs(t) written out over its guards), strong fairness of
\* taking the lock
Fairness ==
  \A t \in Threads :
    /\ []<>(~canRun(t)) \/ []<><<runs(t)>>_vars
    /\ WF_vars(applyFnEnds(t))
    /\ SF_vars(acquires(t))

SpecLive == Init /\ [][NextLive]_vars /\ Fairness

----------------------------------------------------------------------------
(* BcmRouteTable, BcmRoute and the multipath next-hop table: the hardware
   programmer is handed the resolved routes of the applied state, one addRoute
   or deleteRoute at a time *)

\* the handles BcmMultiPathNextHop objects are told apart by
MaxGroups == 5

Handles == 1..MaxGroups

\* a BcmRoute that holds no BcmMultiPathNextHop
NoReference == 0

\* the interface of each VRF's connected route: an interface belongs to one VRF
intfOf(vrf) == IF vrf = DefaultVrf THEN kIntf.interfaceID ELSE "intf2"

\* the prefixes the hardware is given routes for
BcmPrefixes == {kNet8, kHost}

\* the resolved next-hop sets of a VRF: one next hop, or two of the three
\* gateways, all with weight 0 (equal cost) or all with weight 1
BcmNextHopSets(vrf) ==
  {{[addr |-> a, intf |-> intfOf(vrf), weight |-> w] : a \in S} :
     S \in {{kGateway}, {kGateway, kGatewayB}, {kGateway, kGateway2}}, w \in {0, 1}}

\* the forwarding information of the resolved routes of a VRF: a static route
\* drops or goes to any next-hop set; BGP, which the Thrift handler lets into the
\* default VRF alone, spreads its routes over the two gateways of the connected
\* network
BcmForwards(vrf) ==
  {[action |-> "DROP", nhops |-> {},
    adminDistance |-> clientIdToAdminDistance(STATIC_ROUTE)]}
    \cup {[action |-> "NEXTHOPS", nhops |-> n,
            adminDistance |-> clientIdToAdminDistance(STATIC_ROUTE)] :
            n \in BcmNextHopSets(vrf)}
    \cup {[action |-> "NEXTHOPS", nhops |-> n,
            adminDistance |-> clientIdToAdminDistance(BGPD)] :
            n \in {m \in BcmNextHopSets(vrf) :
                     /\ vrf = DefaultVrf
                     /\ {nh.addr : nh \in m} = {kGateway, kGatewayB}}}

\* RouteNextHopEntry::normalizedNextHops: an equal-cost next hop counts once
normalizedNextHops(nhops) ==
  {[nh EXCEPT !.weight = IF nh.weight = 0 THEN 1 ELSE nh.weight] : nh \in nhops}

BcmMultiPathNextHopKey(vrf, nhops) == [vrf |-> vrf, nhops |-> nhops]

\* the egress object of one next hop of a VRF
hostEgressId(vrf, nh) ==
  [kind |-> "host",
   id |-> 10 * vrf + (CASE nh.addr = kGateway -> 1
                        [] nh.addr = kGatewayB -> 2
                        [] nh.addr = kGateway2 -> 3)]

getDropEgressId == [kind |-> "drop", id |-> 0]

\* the paths a BcmMultiPathNextHop collects: each next hop's egress, once per
\* unit of weight
ecmpPaths(key) ==
  UNION {{<<hostEgressId(key.vrf, nh), i>> : i \in 1..nh.weight} : nh \in key.nhops}

\* a BcmEcmpEgress object is made for more than one path only
hasEcmpEgress(key) == Cardinality(ecmpPaths(key)) > 1

\* BcmMultiPathNextHop::getEgressId of the object with this handle and key: the
\* ECMP egress made for more than one path, else the egress of its one next hop
getEgressId(handle, key) ==
  IF Cardinality(key.nhops) > 1 THEN [kind |-> "ecmp", id |-> handle]
  ELSE hostEgressId(key.vrf, CHOOSE nh \in key.nhops : TRUE)

\* a new BcmMultiPathNextHop for key, with the first free handle and one
\* reference
emplaceNextHop(table, key) ==
  LET handle == CHOOSE h \in Handles \ DOMAIN table :
                  \A g \in Handles \ DOMAIN table : h <= g
  IN [table |-> [h \in DOMAIN table \cup {handle} |->
                   IF h = handle THEN [key |-> key, refs |-> 1] ELSE table[h]],
      handle |-> handle]

\* referenceOrEmplaceNextHop: one more reference to the live object of key, or a
\* new object when there is none
referenceOrEmplaceNextHop(table, key) ==
  LET found == {h \in DOMAIN table : table[h].key = key}
  IN IF found = {} THEN emplaceNextHop(table, key)
     ELSE LET handle == CHOOSE h \in found : TRUE
          IN [table |-> [table EXCEPT ![handle].refs = @ + 1], handle |-> handle]

\* a reference is given up; the object goes with its last reference
dereference(table, handle) ==
  IF handle = NoReference THEN table
  ELSE IF table[handle].refs = 1
  THEN [h \in DOMAIN table \ {handle} |-> table[h]]
  ELSE [table EXCEPT ![handle].refs = @ - 1]

\* Platform::canUseHostTableForHostRoutes of the platform modelled
canUseHostTableForHostRoutes == TRUE

\* BcmRoute::isHostRoute
isHostRoute(prefix) == MaskLen(prefix) = (IF isV4(prefix) THEN 32 ELSE 128)

\* BcmRoute::canUseHostTable
canUseHostTable(prefix) == isHostRoute(prefix) /\ canUseHostTableForHostRoutes

\* a null hostRouteEntry_
NoHost == [egressId |-> [kind |-> "none", id |-> 0]]

\* BcmRoute::programHostRoute: the BcmHost of the prefix with its egress set
programHostRoute(egressId) == [egressId |-> egressId]

\* the part of BcmRoute::program after the egress is found, when all of it
\* succeeds: hostRouteEntry_ of a route that was hostEntry before
programHost(hostEntry, prefix, egressId) ==
  IF canUseHostTable(prefix) THEN programHostRoute(egressId) ELSE hostEntry

\* BcmRoute::program when the hardware write throws, in programHostRoute or in
\* programLpmRoute: [host, table]. The reference taken for the new next hops is
\* local and goes with the exception; hostRouteEntry_ was reset before
\* programHostRoute was called
programThrows(hostEntry, prefix, vrf, fwd, table) ==
  LET ref == IF fwd.action = "NEXTHOPS"
             THEN referenceOrEmplaceNextHop(
                    table, BcmMultiPathNextHopKey(vrf, fwd.nhops))
             ELSE [table |-> table, handle |-> NoReference]
  IN [host |-> IF canUseHostTable(prefix) THEN NoHost ELSE hostEntry,
      table |-> dereference(ref.table, ref.handle)]

\* a BcmRoute fresh from its constructor
NewBcmRoute ==
  [added |-> FALSE,
   fwd |-> [action |-> "DROP", nhops |-> {},
            adminDistance |-> clientIdToAdminDistance(STATIC_ROUTE)],
   egressId |-> getDropEgressId, nextHopHostReference |-> NoReference]

\* every route is given a BcmMultiPathNextHop of its own
programEmplacesPerRoute(route, vrf, fwd, table) ==
  IF route.added /\ fwd = route.fwd THEN [route |-> route, table |-> table]
  ELSE LET ref == IF fwd.action = "NEXTHOPS"
                  THEN emplaceNextHop(table, BcmMultiPathNextHopKey(vrf, fwd.nhops))
                  ELSE [table |-> table, handle |-> NoReference]
           egressId == IF fwd.action = "NEXTHOPS"
                       THEN getEgressId(ref.handle, ref.table[ref.handle].key)
                       ELSE getDropEgressId
       IN [route |-> [added |-> TRUE, fwd |-> fwd, egressId |-> egressId,
                      nextHopHostReference |-> ref.handle],
           table |-> dereference(ref.table, route.nextHopHostReference)]

\* one next hop is given its egress without going through the multipath table
programSkipsTableForOne(route, vrf, fwd, table) ==
  IF route.added /\ fwd = route.fwd THEN [route |-> route, table |-> table]
  ELSE LET multi == fwd.action = "NEXTHOPS" /\ Cardinality(fwd.nhops) > 1
           ref == IF multi
                  THEN referenceOrEmplaceNextHop(
                         table, BcmMultiPathNextHopKey(vrf, fwd.nhops))
                  ELSE [table |-> table, handle |-> NoReference]
           egressId == IF multi
                       THEN getEgressId(ref.handle, ref.table[ref.handle].key)
                       ELSE IF fwd.action = "NEXTHOPS"
                       THEN hostEgressId(vrf, CHOOSE nh \in fwd.nhops : TRUE)
                       ELSE getDropEgressId
       IN [route |-> [added |-> TRUE, fwd |-> fwd, egressId |-> egressId,
                      nextHopHostReference |-> ref.handle],
           table |-> dereference(ref.table, route.nextHopHostReference)]

\* the reference held so far is given up before the new one is taken
programReleasesFirst(route, vrf, fwd, table) ==
  IF route.added /\ fwd = route.fwd THEN [route |-> route, table |-> table]
  ELSE LET released == dereference(table, route.nextHopHostReference)
           ref == IF fwd.action = "NEXTHOPS"
                  THEN referenceOrEmplaceNextHop(
                         released, BcmMultiPathNextHopKey(vrf, fwd.nhops))
                  ELSE [table |-> released, handle |-> NoReference]
           egressId == IF fwd.action = "NEXTHOPS"
                       THEN getEgressId(ref.handle, ref.table[ref.handle].key)
                       ELSE getDropEgressId
       IN [route |-> [added |-> TRUE, fwd |-> fwd, egressId |-> egressId,
                      nextHopHostReference |-> ref.handle],
           table |-> ref.table]

\* BcmRoute::program: [route, table], the route and the multipath table after it
program(route, vrf, fwd, table) ==
  IF route.added /\ fwd = route.fwd THEN [route |-> route, table |-> table]
  ELSE LET ref == IF fwd.action = "NEXTHOPS"
                  THEN referenceOrEmplaceNextHop(
                         table, BcmMultiPathNextHopKey(vrf, fwd.nhops))
                  ELSE [table |-> table, handle |-> NoReference]
           egressId == IF fwd.action = "NEXTHOPS"
                       THEN getEgressId(ref.handle, ref.table[ref.handle].key)
                       ELSE getDropEgressId
       IN [route |-> [added |-> TRUE, fwd |-> fwd, egressId |-> egressId,
                      nextHopHostReference |-> ref.handle],
           table |-> dereference(ref.table, route.nextHopHostReference)]

\* BcmRouteTable::addRoute(vrf, route) with the resolved route of prefix
addRouteOf(vrf, prefix, forwardInfo) ==
  LET key == <<vrf, prefix>>
      old == IF key \in DOMAIN bcmFib THEN bcmFib[key] ELSE NewBcmRoute
      fwd == IF forwardInfo.action = "NEXTHOPS"
             THEN [forwardInfo EXCEPT !.nhops = normalizedNextHops(@)]
             ELSE forwardInfo
      oldHost == IF key \in DOMAIN bcmFib THEN hostRouteEntry[key] ELSE NoHost
  IN \E r \in {program(old, vrf, fwd, multiPathNextHopTable)} :
       /\ bcmFib' = [k \in DOMAIN bcmFib \cup {key} |->
                       IF k = key THEN r.route ELSE bcmFib[k]]
       /\ multiPathNextHopTable' = r.table
       /\ hostRouteEntry' =
            [k \in DOMAIN bcmFib \cup {key} |->
               IF k # key THEN hostRouteEntry[k]
               ELSE IF old.added /\ fwd = old.fwd THEN oldHost
               ELSE programHost(oldHost, prefix, r.route.egressId)]
       /\ UNCHANGED <<ribVars, clockVars, saiVars, swVars>>

\* the BcmRoute made by the failed call stays in fib_
addRouteThrowsKeepsRoute(vrf, prefix, forwardInfo) ==
  LET key == <<vrf, prefix>>
      old == IF key \in DOMAIN bcmFib THEN bcmFib[key] ELSE NewBcmRoute
      fwd == IF forwardInfo.action = "NEXTHOPS"
             THEN [forwardInfo EXCEPT !.nhops = normalizedNextHops(@)]
             ELSE forwardInfo
      oldHost == IF key \in DOMAIN bcmFib THEN hostRouteEntry[key] ELSE NoHost
  IN /\ ~(old.added /\ fwd = old.fwd)
     /\ \E r \in {programThrows(oldHost, prefix, vrf, fwd, multiPathNextHopTable)} :
          /\ multiPathNextHopTable' = r.table
          /\ hostRouteEntry' =
               [k \in DOMAIN bcmFib \cup {key} |->
                  IF k = key THEN r.host ELSE hostRouteEntry[k]]
     /\ bcmFib' = [k \in DOMAIN bcmFib \cup {key} |->
                     IF k = key THEN old ELSE bcmFib[k]]
     /\ lastRet' = Ret("addRoute", "program failed")
     /\ UNCHANGED <<routeTables, lock, pc, call, fib, snapshotLag>>
     /\ UNCHANGED <<clockVars, saiVars, swVars>>

\* BcmRouteTable::addRoute(vrf, route) when program throws: a BcmRoute made by
\* this call is erased again (SCOPE_FAIL), one that was there stays
addRouteThrowsOf(vrf, prefix, forwardInfo) ==
  LET key == <<vrf, prefix>>
      old == IF key \in DOMAIN bcmFib THEN bcmFib[key] ELSE NewBcmRoute
      fwd == IF forwardInfo.action = "NEXTHOPS"
             THEN [forwardInfo EXCEPT !.nhops = normalizedNextHops(@)]
             ELSE forwardInfo
      oldHost == IF key \in DOMAIN bcmFib THEN hostRouteEntry[key] ELSE NoHost
  IN /\ ~(old.added /\ fwd = old.fwd)
     /\ \E r \in {programThrows(oldHost, prefix, vrf, fwd, multiPathNextHopTable)} :
          /\ multiPathNextHopTable' = r.table
          /\ hostRouteEntry' =
               [k \in DOMAIN bcmFib |-> IF k = key THEN r.host ELSE hostRouteEntry[k]]
     /\ lastRet' = Ret("addRoute", "program failed")
     /\ UNCHANGED <<routeTables, lock, pc, call, fib, snapshotLag>>
     /\ UNCHANGED <<bcmFib, clockVars, saiVars, swVars>>

\* BcmRouteTable::addRoute(vrf, route) with a resolved route
BcmAddRoute ==
  \E vrf \in VrfIds, prefix \in BcmPrefixes :
    \E forwardInfo \in BcmForwards(vrf) : addRouteOf(vrf, prefix, forwardInfo)

\* the erased BcmRoute is leaked, so its reference is never given up
BcmDeleteRouteKeepsReference ==
  \E key \in DOMAIN bcmFib :
    /\ bcmFib' = [k \in DOMAIN bcmFib \ {key} |-> bcmFib[k]]
    /\ hostRouteEntry' = [k \in DOMAIN bcmFib \ {key} |-> hostRouteEntry[k]]
    /\ UNCHANGED multiPathNextHopTable
    /\ UNCHANGED <<ribVars, clockVars, saiVars, swVars>>

\* CHECK(host) of ~BcmRoute for the route of key
checkHost(key) ==
  (bcmFib[key].added /\ canUseHostTable(key[2])) => hostRouteEntry[key] # NoHost

\* BcmRouteTable::deleteRoute(vrf, route) erases a BcmRoute whose destructor
\* fails CHECK(host): the process is aborted
BcmDeleteRouteAborts ==
  \E key \in DOMAIN bcmFib :
    /\ ~checkHost(key)
    /\ lastRet' = Ret("~BcmRoute", "CHECK failed")
    /\ UNCHANGED <<routeTables, lock, pc, call, fib, snapshotLag>>
    /\ UNCHANGED <<bcmVars, clockVars, saiVars, swVars>>

\* BcmRouteTable::deleteRoute(vrf, route): the BcmRoute goes, and its reference
BcmDeleteRoute ==
  \E key \in DOMAIN bcmFib :
    /\ checkHost(key)
    /\ bcmFib' = [k \in DOMAIN bcmFib \ {key} |-> bcmFib[k]]
    /\ hostRouteEntry' = [k \in DOMAIN bcmFib \ {key} |-> hostRouteEntry[k]]
    /\ multiPathNextHopTable' =
         dereference(multiPathNextHopTable, bcmFib[key].nextHopHostReference)
    /\ UNCHANGED <<ribVars, clockVars, saiVars, swVars>>

\* throw FbossError("Failed to delete a non-existing route ")
BcmDeleteRouteThrows ==
  \E vrf \in VrfIds, prefix \in BcmPrefixes :
    /\ <<vrf, prefix>> \notin DOMAIN bcmFib
    /\ lastRet' = Ret("deleteRoute", "non-existing route")
    /\ UNCHANGED <<routeTables, lock, pc, call, fib, snapshotLag>>
    /\ UNCHANGED <<bcmVars, clockVars, saiVars, swVars>>

NextBcm == BcmAddRoute \/ BcmDeleteRoute \/ BcmDeleteRouteThrows

SpecBcm == Init /\ [][NextBcm]_vars

----------------------------------------------------------------------------
(* The hardware programmer with failing hardware writes: routes of the default
   VRF that drop, go to one next hop or are spread over two, and any write of
   program may throw *)

\* the process has not been aborted
running == lastRet # Ret("~BcmRoute", "CHECK failed")

\* a route drops, goes to 10.0.0.1, or is spread over 10.0.0.1 and 10.0.0.2
HwForwards ==
  {fwd \in BcmForwards(DefaultVrf) :
     /\ fwd.adminDistance = clientIdToAdminDistance(STATIC_ROUTE)
     /\ \A nh \in fwd.nhops : nh.weight = 1 /\ nh.addr \in {kGateway, kGatewayB}}

HwAddRoute ==
  \E prefix \in BcmPrefixes, forwardInfo \in HwForwards :
    addRouteOf(DefaultVrf, prefix, forwardInfo)

HwAddRouteThrows ==
  \E prefix \in BcmPrefixes, forwardInfo \in HwForwards :
    addRouteThrowsOf(DefaultVrf, prefix, forwardInfo)

NextHw ==
  /\ running
  /\ \/ HwAddRoute
     \/ HwAddRouteThrows
     \/ BcmDeleteRoute
     \/ BcmDeleteRouteAborts
     \/ BcmDeleteRouteThrows

SpecHw == Init /\ [][NextHw]_vars

----------------------------------------------------------------------------
(* The hardware programmer with weighted next hops: routes of the default VRF
   over one or two gateways whose weights are all 0 or all positive *)

MaxWeight == 2

\* the resolved next-hop sets with weights: every stored weight 0 (equal cost),
\* or every weight positive
WeightedNextHopSets ==
  {{[addr |-> kGateway, intf |-> intfOf(DefaultVrf), weight |-> w]} :
     w \in 0..MaxWeight}
    \cup {{[addr |-> kGateway, intf |-> intfOf(DefaultVrf), weight |-> 0],
            [addr |-> kGatewayB, intf |-> intfOf(DefaultVrf), weight |-> 0]}}
    \cup {{[addr |-> kGateway, intf |-> intfOf(DefaultVrf), weight |-> w],
            [addr |-> kGatewayB, intf |-> intfOf(DefaultVrf), weight |-> v]} :
            w \in 1..MaxWeight, v \in 1..MaxWeight}

WeightedForwards ==
  {[action |-> "DROP", nhops |-> {},
    adminDistance |-> clientIdToAdminDistance(STATIC_ROUTE)]}
    \cup {[action |-> "NEXTHOPS", nhops |-> n,
            adminDistance |-> clientIdToAdminDistance(STATIC_ROUTE)] :
            n \in WeightedNextHopSets}

EcmpAddRoute ==
  \E prefix \in BcmPrefixes, forwardInfo \in WeightedForwards :
    addRouteOf(DefaultVrf, prefix, forwardInfo)

NextEcmp == EcmpAddRoute \/ BcmDeleteRoute \/ BcmDeleteRouteThrows

SpecEcmp == Init /\ [][NextEcmp]_vars

----------------------------------------------------------------------------
(* SaiVlanManager: the VLANs of the SAI switch and their member ports *)

\* std::map::insert and emplace: an existing key keeps its value
mapInsert(m, k, v) ==
  IF k \in DOMAIN m THEN m
  ELSE [x \in DOMAIN m \cup {k} |-> IF x = k THEN v ELSE m[x]]

\* std::map::erase of a key
mapErase(m, k) == [x \in DOMAIN m \ {k} |-> m[x]]

\* SaiVlanManager::getVlanID
getVlanID(ids, saiVlanId) ==
  IF saiVlanId \in DOMAIN ids THEN ids[saiVlanId] ELSE 0

\* a SaiVlan fresh from its constructor
NewSaiVlan(saiId) == [id |-> saiId, members_ |-> EmptyMap, memberIdMap_ |-> EmptyMap]

\* the SAI member objects that exist: those held by the VLANs of the manager
liveMembers == UNION {DOMAIN vlans_[v].members_ : v \in DOMAIN vlans_}

\* the SAI ids of the VLAN objects that exist
liveVlans == {vlans_[v].id : v \in DOMAIN vlans_}

\* a call on one SaiVlan as it starts: the VLAN, the ports' VLANs, the member
\* objects that exist
vlanCall(vlan, live) ==
  [vlan |-> vlan, portVlan |-> portVlan, live |-> live,
   thrown |-> FALSE, exhausted |-> FALSE]

\* createMember: the first id of the allocator's order that no member has
createMember(live, order) ==
  order[CHOOSE i \in MemberIds : /\ order[i] \notin live
                                 /\ \A j \in 1..(i - 1) : order[j] \in live]

\* SaiVlan::addMember
addMember(st, ids, swPortId, order) ==
  IF swPortId \notin KnownPorts THEN [st EXCEPT !.thrown = TRUE]
  ELSE IF MemberIds \subseteq st.live THEN [st EXCEPT !.exhausted = TRUE]
  ELSE LET bridgePortId == bridgePortOf(swPortId)
           memberId == createMember(st.live, order)
       IN [st EXCEPT
             !.portVlan = [@ EXCEPT ![swPortId] = getVlanID(ids, st.vlan.id)],
             !.live = @ \cup {memberId},
             !.vlan = [@ EXCEPT
                         !.members_ = mapInsert(@, memberId, bridgePortId),
                         !.memberIdMap_ = mapInsert(@, bridgePortId, memberId)]]

\* SaiVlan::removeMember: both maps are erased by the bridge port id; a member
\* that leaves members_ is destroyed
removeMember(st, swPortId) ==
  IF swPortId \notin KnownPorts THEN [st EXCEPT !.thrown = TRUE]
  ELSE LET bridgePortId == bridgePortOf(swPortId)
       IN [st EXCEPT
             !.live = @ \ (DOMAIN st.vlan.members_ \cap {bridgePortId}),
             !.vlan = [@ EXCEPT
                         !.members_ = mapErase(@, bridgePortId),
                         !.memberIdMap_ = mapErase(@, bridgePortId)]]

\* the lowest port of a set of member ports
lowestPort(ports) == CHOOSE port \in ports : \A other \in ports : port <= other

\* the loop over the member ports to add, in the order of the PortIDs
RECURSIVE addMembers(_, _, _, _)
addMembers(st, ids, ports, order) ==
  IF st.thrown \/ st.exhausted \/ ports = {} THEN st
  ELSE addMembers(addMember(st, ids, lowestPort(ports), order), ids,
                  ports \ {lowestPort(ports)}, order)

\* the loop over the member ports to remove, in the order of the PortIDs
RECURSIVE removeMembers(_, _)
removeMembers(st, ports) ==
  IF st.thrown \/ ports = {} THEN st
  ELSE removeMembers(removeMember(st, lowestPort(ports)),
                     ports \ {lowestPort(ports)})

\* SaiVlanManager::addVlan of a VLAN with these member ports; create gives the
\* SaiVlan the id saiId. A SaiVlan whose member cannot be added is destroyed
\* with its members, after its id went into vlanSaiIds_
addVlan(swVlanId, ports, saiId, order) ==
  IF swVlanId \in DOMAIN vlans_
  THEN /\ lastRet' = Ret("addVlan", "duplicate vlan")
       /\ UNCHANGED saiVars
  ELSE \E r \in {addMembers(vlanCall(NewSaiVlan(saiId), liveMembers),
                              mapInsert(vlanSaiIds_, saiId, swVlanId),
                              ports, order)} :
         /\ saiId \notin liveVlans
         /\ ~r.exhausted
         /\ vlanSaiIds_' = mapInsert(vlanSaiIds_, saiId, swVlanId)
         /\ portVlan' = r.portVlan
         /\ IF r.thrown
            THEN /\ lastRet' = Ret("addVlan", "no port")
                 /\ UNCHANGED <<vlans_, swVlans>>
            ELSE /\ lastRet' = Ret("addVlan", "ok")
                 /\ vlans_' = mapInsert(vlans_, swVlanId, r.vlan)
                 /\ swVlans' = mapInsert(swVlans, swVlanId,
                                          [ports |-> ports, clean |-> TRUE])

\* SaiVlanManager::removeVlan
removeVlan(swVlanId) ==
  IF swVlanId \notin DOMAIN vlans_
  THEN /\ lastRet' = Ret("removeVlan", "no vlan")
       /\ UNCHANGED saiVars
  ELSE /\ lastRet' = Ret("removeVlan", "ok")
       /\ vlanSaiIds_' = mapErase(vlanSaiIds_, vlans_[swVlanId].id)
       /\ vlans_' = mapErase(vlans_, swVlanId)
       /\ swVlans' = mapErase(swVlans, swVlanId)
       /\ UNCHANGED portVlan

\* SaiVlanManager::changeVlan(swVlanOld, swVlanNew): the ports of the old
\* definition that the new one lacks are removed, then the ports the new one
\* adds are added; an unknown port ends the call where it stands
changeVlan(swVlanId, oldPorts, newPorts, order) ==
  IF swVlanId \notin DOMAIN vlans_
  THEN /\ lastRet' = Ret("changeVlan", "no vlan")
       /\ UNCHANGED saiVars
  ELSE \E r \in {addMembers(
                    removeMembers(vlanCall(vlans_[swVlanId], liveMembers),
                                  oldPorts \ newPorts),
                    vlanSaiIds_, newPorts \ oldPorts, order)} :
         /\ ~r.exhausted
         /\ vlans_' = [vlans_ EXCEPT ![swVlanId] = r.vlan]
         /\ portVlan' = r.portVlan
         /\ UNCHANGED vlanSaiIds_
         /\ IF r.thrown
            THEN /\ lastRet' = Ret("changeVlan", "no port")
                 /\ swVlans' = [swVlans EXCEPT ![swVlanId].clean = FALSE]
            ELSE /\ lastRet' = Ret("changeVlan", "ok")
                 /\ swVlans' = [swVlans EXCEPT ![swVlanId].ports = newPorts]

\* the frame of a call on the VLAN manager
saiFrame ==
  UNCHANGED <<routeTables, lock, pc, call, fib, snapshotLag, bcmVars, clockVars,
              swVars>>

AddVlan ==
  /\ \E swVlanId \in VlanIds, ports \in SUBSET PortIds, saiId \in VlanSaiIds,
        order \in Permutations(MemberIds) :
        addVlan(swVlanId, ports, saiId, order)
  /\ saiFrame

RemoveVlan ==
  /\ \E swVlanId \in VlanIds : removeVlan(swVlanId)
  /\ saiFrame

\* processVlanDelta passes the definition the switch state held so far as the
\* old one
ChangeVlan ==
  /\ \E swVlanId \in VlanIds, newPorts \in SUBSET PortIds,
        order \in Permutations(MemberIds) :
        changeVlan(swVlanId,
                   IF swVlanId \in DOMAIN swVlans THEN swVlans[swVlanId].ports
                   ELSE {},
                   newPorts, order)
  /\ saiFrame

NextSai == AddVlan \/ RemoveVlan \/ ChangeVlan

SpecSai == Init /\ [][NextSai]_vars

----------------------------------------------------------------------------
(* BcmRouteTable::toFollyDynamic: the serialized applied route table *)

\* a network address: its family and, within the family, its place in the order
\* of the addresses
networkOf(prefix) ==
  CASE prefix = kHost -> [v4 |-> TRUE, addr |-> 8]
    [] prefix = kNet4 -> [v4 |-> TRUE, addr |-> 10]
    [] prefix = kNet8 -> [v4 |-> TRUE, addr |-> 20]
    [] prefix = kNet8b -> [v4 |-> TRUE, addr |-> 30]
    [] prefix = kIPv4LinkLocal -> [v4 |-> TRUE, addr |-> 169]
    [] prefix = kIPv6LinkLocal -> [v4 |-> FALSE, addr |-> 254]

\* folly::IPAddress operator<: within a family by the address; an IPv4 address
\* is compared as ::ffff:a.b.c.d, below every IPv6 address of the model
addressLess(a, b) ==
  IF a.v4 = b.v4 THEN a.addr < b.addr ELSE a.v4

\* BcmRouteTable::Key of a route
KeyOf(k) == [network |-> networkOf(k[2]), mask |-> MaskLen(k[2]), vrf |-> k[1]]

\* the network is compared before the mask
KeyLessNetworkFirst(k1, k2) ==
  IF k1.vrf < k2.vrf THEN TRUE
  ELSE IF k1.vrf > k2.vrf THEN FALSE
  ELSE IF addressLess(k1.network, k2.network) THEN TRUE
  ELSE IF addressLess(k2.network, k1.network) THEN FALSE
  ELSE k1.mask < k2.mask

\* BcmRouteTable::Key::operator<
KeyLess(k1, k2) ==
  IF k1.vrf < k2.vrf THEN TRUE
  ELSE IF k1.vrf > k2.vrf THEN FALSE
  ELSE IF k1.mask < k2.mask THEN TRUE
  ELSE IF k1.mask > k2.mask THEN FALSE
  ELSE addressLess(k1.network, k2.network)

\* fib_ is a map ordered by its keys: the keys in iteration order, which is the
\* order each key was inserted into, before the first key it is less than
RECURSIVE fibOrder(_, _)
fibOrder(sorted, todo) ==
  IF todo = {} THEN sorted
  ELSE LET k == CHOOSE x \in todo : TRUE
           before == {i \in 1..Len(sorted) : KeyLess(KeyOf(sorted[i]), KeyOf(k))}
       IN fibOrder(
            [i \in 1..(Len(sorted) + 1) |->
               IF i <= Cardinality(before) THEN sorted[i]
               ELSE IF i = Cardinality(before) + 1 THEN k
               ELSE sorted[i - 1]],
            todo \ {k})

\* BcmRoute::toFollyDynamic
routeToFollyDynamic(k, bcmRoute) ==
  [network |-> networkOf(k[2]), maskLen |-> MaskLen(k[2]),
   action |-> bcmRoute.fwd.action,
   ecmp |-> Cardinality(bcmRoute.fwd.nhops) > 1,
   egressId |-> bcmRoute.egressId]

\* BcmRouteTable::toFollyDynamic: the routes list, one entry per route of fib_
\* in iteration order
toFollyDynamic(fibMap) ==
  LET order == fibOrder(<<>>, DOMAIN fibMap)
  IN [i \in 1..Len(order) |-> routeToFollyDynamic(order[i], fibMap[order[i]])]

\* the prefixes whose routes are serialized: two of one mask length, and both
\* families
SerializedPrefixes == {kHost, kNet4, kNet8, kNet8b, kIPv6LinkLocal}

\* addRoute of a route that drops
BcmAddDropRoute ==
  \E vrf \in VrfIds, prefix \in SerializedPrefixes :
    addRouteOf(vrf, prefix, [action |-> "DROP", nhops |-> {},
                             adminDistance |-> clientIdToAdminDistance(STATIC_ROUTE)])

NextSerialize == BcmAddDropRoute \/ BcmDeleteRoute

SpecSerialize == Init /\ [][NextSerialize]_vars

----------------------------------------------------------------------------
(* Reads *)

\* RouteEntry getEntryForClient: the client's candidate for p, as a set of at
\* most one entry
getEntryForClient(rt, p, client) ==
  IF p \in networks(rt) /\ client \in DOMAIN routeOf(rt, p).entries
  THEN {routeOf(rt, p).entries[client]}
  ELSE {}

\* the routes a read by client returns from one VRF: destination and next hops
getRouteTableByClient(rt, client) ==
  {[dest |-> p,
    nextHops |-> {nh.addr : nh \in routeOf(rt, p).entries[client].nhops}] :
     p \in {q \in networks(rt) : getEntryForClient(rt, q, client) # {}}}

\* ThriftHandler::getRouteTable: the resolved routes of the applied state, each
\* with its destination and the addresses of its forwarding next hops
getRouteTable(appliedState) ==
  {[dest |-> x[2], nextHopAddrs |-> {nh.addr : nh \in appliedState[x[1]][x[2]].nhops}] :
     x \in {y \in VrfIds \X Prefixes :
              /\ y[2] \in DOMAIN appliedState[y[1]]
              /\ isResolved([fwd |-> appliedState[y[1]][y[2]]])}}

\* the destinations of a list of routes, and the elements of a list
dests(routes) == {routes[i].dest : i \in 1..Len(routes)}

Range(seq) == {seq[i] : i \in 1..Len(seq)}

\* thread t is between a successful commit of update and its apply step
Committed(t) == pc[t] = "apply"

\* thread t's call is a syncFib: resetClientsRoutes = true and toDelete = []
IsSync(t) == Committed(t) /\ call[t].resetClientsRoutes /\ call[t].toDelete = <<>>

----------------------------------------------------------------------------
(* Properties of update *)

\* C1: update called with a VRF id that is not configured throws "VRF not
\* configured"; the step that throws changes no route table of any VRF, does
\* not reach the apply step (the FIB is untouched) and releases the lock.
UpdateUnknownVrfFails ==
  [][\A t \in Threads :
       (pc[t] = "update" /\ call[t].routerID \notin DOMAIN routeTables)
         => /\ lastRet' = Ret("update", "vrf not configured")
            /\ routeTables' = routeTables
            /\ fib' = fib
            /\ snapshotLag' = snapshotLag
            /\ pc'[t] = "idle"
            /\ lock' = Free]_vars

\* an update of the unconfigured default VRF has thrown while another VRF holds
\* routes
UpdateUnknownVrfFailed ==
  /\ lastRet = Ret("update", "vrf not configured")
  /\ DefaultVrf \notin DOMAIN routeTables
  /\ \E vrf \in DOMAIN routeTables : networks(routeTables[vrf]) # {}

UpdateKeepsOtherClients ==
  [][\A t \in Threads :
       (pc[t] = "update" /\ call[t].routerID \in DOMAIN routeTables)
         => \E c \in ClientIds :
              /\ pc'[t] = "apply" => c = call'[t].clientID
              /\ \A d \in ClientIds \ {c} : \A p \in Prefixes :
                   getEntryForClient(routeTables'[call[t].routerID], p, d)
                     = getEntryForClient(routeTables[call[t].routerID], p, d)]_vars

\* BGP has reset its routes and added one for a prefix that the interface
\* client and one for a prefix that the link-local client has a candidate for
UpdateBesideOtherClients ==
  \E t \in Threads :
    /\ IsSync(t)
    /\ call[t].clientID = BGPD
    /\ LET rt == routeTables[call[t].routerID]
       IN /\ getEntryForClient(rt, kNet4, BGPD) # {}
          /\ getEntryForClient(rt, kNet4, INTERFACE_ROUTE) # {}
          /\ getEntryForClient(rt, kIPv6LinkLocal, BGPD) # {}
          /\ getEntryForClient(rt, kIPv6LinkLocal, LINK_LOCAL_ROUTE) # {}

\* C4 (as the code has it): when one update names the same prefix in toAdd and
\* in toDelete, the deletes are applied last: after the commit the client has
\* no candidate for that prefix.
DeletesTakePrecedence ==
  \A t \in Threads :
    Committed(t) =>
      \A p \in dests(call[t].toAdd) \cap Range(call[t].toDelete) :
        getEntryForClient(routeTables[call[t].routerID], p, call[t].clientID) = {}

\* an update naming one prefix in both lists has committed
UpdateAddsAndDeletesSamePrefix ==
  \E t \in Threads :
    /\ Committed(t)
    /\ dests(call[t].toAdd) \cap Range(call[t].toDelete) # {}

\* C4 (as stated): when one update names the same prefix in toAdd and in
\* toDelete, the adds are applied last: after the commit the client's candidate
\* for that prefix is present.
AddsTakePrecedence ==
  \A t \in Threads :
    Committed(t) =>
      \A p \in dests(call[t].toAdd) \cap Range(call[t].toDelete) :
        getEntryForClient(routeTables[call[t].routerID], p, call[t].clientID) # {}

\* C5 (as stated): an update that throws on a route failing validation leaves
\* the route tables as they were before the call and does not reach the apply
\* step.
InvalidRouteMutatesNothing ==
  [][\A t \in Threads :
       (pc[t] = "update" /\ lastRet' = Ret("update", "invalid route"))
         => /\ routeTables' = routeTables
            /\ fib' = fib
            /\ pc'[t] = "idle"]_vars

\* C6: when the apply step of update throws, the caller gets the error, the
\* route tables stay as the commit left them (every added route that the call
\* does not also delete is there, and the tables are resolved), the FIB is not
\* updated, and the writer lock is released.
ApplyFailureKeepsRib ==
  [][\A t \in Threads :
       (Committed(t) /\ lastRet' = Ret("update", "apply failed"))
         => LET vrf == call[t].routerID
            IN /\ routeTables' = routeTables
               /\ updateDone(routeTables'[vrf]) = routeTables'[vrf]
               /\ \A p \in dests(call[t].toAdd) \ Range(call[t].toDelete) :
                    getEntryForClient(routeTables'[vrf], p, call[t].clientID) # {}
               /\ call[t].resetClientsRoutes /\ call[t].toDelete = <<>>
                    => {p \in Prefixes :
                          getEntryForClient(routeTables'[vrf], p, call[t].clientID) # {}}
                         = dests(call[t].toAdd)
               /\ fib' = fib
               /\ lock' = Free
               /\ pc'[t] = "idle"]_vars

\* the apply step has thrown and the route tables of the default VRF are ahead
\* of its FIB
ApplyFailedRibAhead ==
  /\ lastRet = Ret("update", "apply failed")
  /\ lock = Free
  /\ fib[DefaultVrf] # snapshotOf(DefaultVrf)
  /\ getEntryForClient(routeTables[DefaultVrf], kNet4, BGPD) # {}

----------------------------------------------------------------------------
(* Concurrency *)

\* C7 (as stated): no two transactions are in progress at once, the lock is
\* held whenever a transaction is in progress, and while the lock is free the
\* route tables of every VRF are resolved, so that no caller observes tables
\* that are mutated but not yet resolved.
LockHidesUnresolvedTables ==
  /\ \A t, u \in Threads : (pc[t] # "idle" /\ pc[u] # "idle") => t = u
  /\ \A t \in Threads : pc[t] # "idle" => lock = t
  /\ lock = Free =>
       \A vrf \in DOMAIN routeTables : updateDone(routeTables[vrf]) = routeTables[vrf]

\* C8: the calls run one at a time in the order they take the lock: while a
\* thread holds the lock it is inside its call and every other thread is and
\* stays outside of any call, and the route tables, the FIB and the result
\* change only by a step of the thread that holds the lock.
CallsRunOneAtATime ==
  [][/\ \A t \in Threads :
          lock = t =>
            /\ pc[t] # "idle"
            /\ \A u \in Threads \ {t} :
                 pc[u] = "idle" /\ pc'[u] = "idle" /\ call'[u] = call[u]
     /\ (routeTables' # routeTables \/ fib' # fib) => lock \in Threads
     /\ lock = Free => \A t \in Threads : pc[t] = "idle"]_vars

\* a thread is inside update on tables that hold routes of two earlier updates,
\* one by BGP and one by the link-local client
UpdateAfterTwoUpdates ==
  \E t \in Threads :
    /\ pc[t] = "update"
    /\ lock = t
    /\ DefaultVrf \in DOMAIN routeTables
    /\ getEntryForClient(routeTables[DefaultVrf], kNet4, BGPD) # {}
    /\ \E e \in getEntryForClient(routeTables[DefaultVrf], kIPv6LinkLocal,
                                   LINK_LOCAL_ROUTE) : e.action = "NEXTHOPS"

\* C9: every apply step of update is handed the snapshot of exactly one commit
\* that no earlier apply step of the VRF has seen, the newest one: no apply step
\* sees a snapshot older than, or the same as, one already seen for the VRF.
SnapshotsAreMonotonic ==
  [][\A t \in Threads :
       Committed(t) =>
         LET vrf == call[t].routerID
         IN /\ snapshotLag[vrf] = 1
            /\ snapshotLag'[vrf] = 0
            /\ lastRet' = Ret("update", "ok")
                 => fib'[vrf] = fibUpdater(routeTables[vrf])]_vars

\* an apply step is about to see a snapshot that differs from the one the FIB of
\* the VRF was last given
NewerSnapshotPending ==
  \E t \in Threads :
    /\ Committed(t)
    /\ fib[call[t].routerID] # EmptyMap
    /\ kNet4 \in DOMAIN fib[call[t].routerID]
    /\ fib[call[t].routerID] # snapshotOf(call[t].routerID)

----------------------------------------------------------------------------
(* Properties of reconfigure *)

\* the two networks addLinkLocalRoutes seeds
LinkLocalNetworks == {kIPv4LinkLocal, kIPv6LinkLocal}

\* what reconfigure does to the VRF set: the VRFs are the configuration's, and a
\* VRF new to it holds no candidate of BGP and none of the link-local client
\* outside the link-local networks
ReconfigureVrfSet(t) ==
  /\ DOMAIN routeTables' = DOMAIN call[t].cfg.interfaceRoutes
  /\ \A vrf \in DOMAIN routeTables' \ DOMAIN routeTables : \A p \in Prefixes :
       /\ getEntryForClient(routeTables'[vrf], p, BGPD) = {}
       /\ p \notin LinkLocalNetworks
            => getEntryForClient(routeTables'[vrf], p, LINK_LOCAL_ROUTE) = {}

\* C10 (as the code has it): after reconfigure the VRF set is the
\* configuration's, a new VRF starts from an empty table, and in a VRF present
\* before and after every candidate of a client other than STATIC and INTERFACE
\* is unchanged, except the link-local client's candidates for fe80::/10 and
\* 169.254.0.0/16, which are set to TO_CPU with admin distance 0.
ReconfigureKeepsOtherClientsButLinkLocal ==
  [][\A t \in Threads :
       pc[t] = "reconfigure" =>
         /\ ReconfigureVrfSet(t)
         /\ \A vrf \in DOMAIN routeTables' \cap DOMAIN routeTables :
              \A d \in ClientIds \ {STATIC_ROUTE, INTERFACE_ROUTE} : \A p \in Prefixes :
                IF d = LINK_LOCAL_ROUTE /\ p \in LinkLocalNetworks
                THEN getEntryForClient(routeTables'[vrf], p, d)
                       = {[action |-> "TO_CPU", nhops |-> {}, adminDistance |-> 0]}
                ELSE getEntryForClient(routeTables'[vrf], p, d)
                       = getEntryForClient(routeTables[vrf], p, d)]_vars

\* reconfigure has dropped VRF 1 and kept the default VRF with its BGP routes
ReconfigureDroppedVrfKeptBgp ==
  /\ lastRet = Ret("reconfigure", "ok")
  /\ DOMAIN routeTables = {DefaultVrf}
  /\ fib[1] # EmptyMap
  /\ getEntryForClient(routeTables[DefaultVrf], kNet4, BGPD) # {}
  /\ getEntryForClient(routeTables[DefaultVrf], kIPv6LinkLocal, BGPD) # {}

\* C10 (as stated): after reconfigure the VRF set is the configuration's, a new
\* VRF starts from an empty table, and in a VRF present before and after every
\* candidate of a client other than STATIC and INTERFACE is unchanged.
ReconfigureKeepsOtherClients ==
  [][\A t \in Threads :
       pc[t] = "reconfigure" =>
         /\ ReconfigureVrfSet(t)
         /\ \A vrf \in DOMAIN routeTables' \cap DOMAIN routeTables :
              \A d \in ClientIds \ {STATIC_ROUTE, INTERFACE_ROUTE} : \A p \in Prefixes :
                getEntryForClient(routeTables'[vrf], p, d)
                  = getEntryForClient(routeTables[vrf], p, d)]_vars

\* the prefixes of the static routes a configuration lists for vrf, in any of
\* its three lists
staticPrefixes(cfg, vrf) ==
  {r.prefix : r \in {x \in Range(cfg.staticRoutesToCpu) \cup Range(cfg.staticRoutesToNull)
                            \cup Range(cfg.staticRoutesWithNextHops) :
                        x.routerID = vrf}}

\* the prefixes of rt that carry a candidate of client
prefixesOf(rt, client) == {p \in networks(rt) : getEntryForClient(rt, p, client) # {}}

\* C11: when reconfigure runs to its end, in every VRF the prefixes with a STATIC
\* candidate are exactly the static routes the configuration lists for the VRF
\* and the prefixes with an INTERFACE candidate are exactly its interface routes,
\* each with the interface and endpoint the configuration gives.
ReconfigureReplacesStaticAndInterface ==
  [][\A t \in Threads :
       (pc[t] = "reconfigure" /\ lastRet' = Ret("reconfigure", "ok"))
         => \A vrf \in DOMAIN routeTables' :
              LET cfg == call[t].cfg
                  rt == routeTables'[vrf]
              IN /\ prefixesOf(rt, STATIC_ROUTE) = staticPrefixes(cfg, vrf)
                 /\ prefixesOf(rt, INTERFACE_ROUTE) = DOMAIN cfg.interfaceRoutes[vrf]
                 /\ \A p \in DOMAIN cfg.interfaceRoutes[vrf] :
                      \A e \in getEntryForClient(rt, p, INTERFACE_ROUTE) :
                        e.nhops = {[addr |-> cfg.interfaceRoutes[vrf][p].endpoint,
                                    intf |-> cfg.interfaceRoutes[vrf][p].interfaceID]}]_vars

\* a reconfigure has ended that left static routes in both VRFs and, in the
\* default VRF, an interface route beside BGP's route
ReconfiguredStaticAndInterface ==
  /\ lastRet = Ret("reconfigure", "ok")
  /\ DOMAIN routeTables = VrfIds
  /\ \E e \in getEntryForClient(routeTables[DefaultVrf], kNet4, STATIC_ROUTE) :
       e.action = "DROP"
  /\ \E e \in getEntryForClient(routeTables[1], kNet4, STATIC_ROUTE) :
       e.action = "NEXTHOPS"
  /\ getEntryForClient(routeTables[DefaultVrf], kNet4, INTERFACE_ROUTE) # {}
  /\ getEntryForClient(routeTables[DefaultVrf], kNet4, BGPD) # {}

\* C12: when reconfigure runs to its end, every VRF of the RIB holds fe80::/10
\* and 169.254.0.0/16, each with a candidate of the link-local client whose
\* action is TO_CPU.
ReconfigureSeedsLinkLocal ==
  [][\A t \in Threads :
       (pc[t] = "reconfigure" /\ lastRet' = Ret("reconfigure", "ok"))
         => \A vrf \in DOMAIN routeTables' : \A p \in LinkLocalNetworks :
              /\ p \in networks(routeTables'[vrf])
              /\ getEntryForClient(routeTables'[vrf], p, LINK_LOCAL_ROUTE) # {}
              /\ \A e \in getEntryForClient(routeTables'[vrf], p, LINK_LOCAL_ROUTE) :
                   e.action = "TO_CPU"]_vars

\* a reconfigure has ended with both VRFs configured, BGP holding a route for
\* fe80::/10 in the default VRF
ReconfiguredBesideBgpLinkLocal ==
  /\ lastRet = Ret("reconfigure", "ok")
  /\ DOMAIN routeTables = VrfIds
  /\ getEntryForClient(routeTables[DefaultVrf], kIPv6LinkLocal, BGPD) # {}
  /\ getEntryForClient(routeTables[1], kIPv4LinkLocal, LINK_LOCAL_ROUTE) # {}

\* C13 (as stated): a reconfigure that fails part-way, on a static route with a
\* malformed prefix, leaves the VRF set and the routes of every VRF exactly as
\* they were before the call, and the FIB with them.
ReconfigureFailureChangesNothing ==
  [][\A t \in Threads :
       (pc[t] = "reconfigure" /\ lastRet' = Ret("reconfigure", "invalid route"))
         => /\ DOMAIN routeTables' = DOMAIN routeTables
            /\ routeTables' = routeTables
            /\ fib' = fib]_vars

----------------------------------------------------------------------------
(* Invariants of the route maps *)

\* C14: in every state update, syncFib and reconfigure lead to, commits and
\* throws alike, every RouteEntry of every VRF's v4 and v6 map has at least one
\* client's candidate: a delete or reset of the last candidate takes the entry
\* out of its map.
NoEmptyRouteEntry ==
  \A vrf \in DOMAIN routeTables : \A p \in networks(routeTables[vrf]) :
    DOMAIN routeOf(routeTables[vrf], p).entries # {}

\* the link-local client has withdrawn its candidate for fe80::/10, the only
\* one, in a VRF that reconfigure had seeded, and the prefix has left the v6 map
LastCandidateWithdrawn ==
  \E t \in Threads :
    /\ Committed(t)
    /\ call[t].clientID = LINK_LOCAL_ROUTE
    /\ ~call[t].resetClientsRoutes
    /\ call[t].toAdd = <<>>
    /\ call[t].toDelete = <<kIPv6LinkLocal>>
    /\ kIPv4LinkLocal \in networks(routeTables[call[t].routerID])
    /\ kIPv6LinkLocal \notin networks(routeTables[call[t].routerID])

----------------------------------------------------------------------------
(* Properties of the best candidate and of recursive resolution *)

\* the gateway addresses of a set of next hops
addrsOf(nhops) == {nh.addr : nh \in nhops}

\* candidate c of entries comes before every other one: smaller admin distance,
\* or the same admin distance and a lower priority index
comesFirst(entries, c) ==
  \A d \in DOMAIN entries \ {c} :
    \/ entries[c].adminDistance < entries[d].adminDistance
    \/ /\ entries[c].adminDistance = entries[d].adminDistance
       /\ clientPriority(c) < clientPriority(d)

\* C15: every resolved prefix has exactly one candidate that comes first by
\* admin distance and then by client priority, whatever the order the
\* candidates were added in, and what the route forwards by, and the FIB
\* snapshot with it, is that candidate's: its action when it is DROP or TO_CPU,
\* and its gateways when it forwards to next hops.
BestIsSmallestAdminDistance ==
  \A vrf \in DOMAIN routeTables : \A p \in networks(routeTables[vrf]) :
    LET r == routeOf(routeTables[vrf], p)
        first == {c \in DOMAIN r.entries : comesFirst(r.entries, c)}
    IN r.fwd.action # "PENDING" =>
         /\ Cardinality(first) = 1
         /\ \A c \in first :
              /\ r.entries[c].action # "NEXTHOPS" => r.fwd.action = r.entries[c].action
              /\ r.fwd.action = "NEXTHOPS" =>
                   /\ r.entries[c].action = "NEXTHOPS"
                   /\ addrsOf(r.fwd.nhops) = addrsOf(r.entries[c].nhops)
                   /\ snapshotOf(vrf)[p] = r.fwd

\* BGP has just announced 20.0.0.0/8 via 10.0.0.1 beside the static route via
\* 10.0.0.2, and the link-local client holds a candidate for the connected
\* 10.0.0.0/24: 20.0.0.0/8 forwards by the static route, 10.0.0.0/24 by the
\* interface route
BgpAddedBesideStatic ==
  \E t \in ConfigThreads :
    /\ Committed(t)
    /\ call[t].clientID = BGPD
    /\ dests(call[t].toAdd) = {kNet8}
    /\ LET rt == routeTables[DefaultVrf]
       IN /\ getEntryForClient(rt, kNet8, STATIC_ROUTE) # {}
          /\ getEntryForClient(rt, kNet8, BGPD) # {}
          /\ addrsOf(routeOf(rt, kNet8).fwd.nhops) = {kGatewayB}
          /\ getEntryForClient(rt, kNet4, LINK_LOCAL_ROUTE) # {}
          /\ getEntryForClient(rt, kNet4, INTERFACE_ROUTE) # {}
          /\ addrsOf(routeOf(rt, kNet4).fwd.nhops) = {kGateway}

\* the candidate of a route that comes first
firstOf(r) == r.entries[CHOOSE c \in DOMAIN r.entries : comesFirst(r.entries, c)]

\* the interfaces of the connected routes that the longest-prefix matches lead
\* to from address a, following at most `depth` routes
RECURSIVE interfacesVia(_, _, _)
interfacesVia(rt, a, depth) ==
  LET q == longestMatch(rt, a)
  IN IF depth = 0 \/ q = NoMatch THEN {}
     ELSE UNION {IF nh.intf # NoIntf THEN {nh.intf}
                 ELSE interfacesVia(rt, nh.addr, depth - 1) :
                   nh \in firstOf(routeOf(rt, q)).nhops}

\* C16: after a commit, every route resolved to next hops has, for each gateway
\* of its best candidate, one resolved next hop per interface of the connected
\* routes that the longest-prefix matches lead to from that gateway within 32
\* levels in the same VRF, and no other; each carries the gateway of the
\* candidate itself, not that of a route in between.
ResolvedNextHopsReachConnected ==
  \A vrf \in DOMAIN routeTables : \A p \in networks(routeTables[vrf]) :
    LET rt == routeTables[vrf]
        r == routeOf(rt, p)
    IN r.fwd.action = "NEXTHOPS" =>
         /\ firstOf(r).action = "NEXTHOPS"
         /\ \A nh \in firstOf(r).nhops :
              nh.intf = NoIntf => interfacesVia(rt, nh.addr, kMaxRecursionDepth) # {}
         /\ r.fwd.nhops =
              UNION {IF nh.intf # NoIntf THEN {nh}
                     ELSE {[addr |-> nh.addr, intf |-> i] :
                             i \in interfacesVia(rt, nh.addr, kMaxRecursionDepth)} :
                       nh \in firstOf(r).nhops}

\* 8.8.8.8/32 via 20.0.0.1 is resolved through 20.0.0.0/8 and the connected
\* 10.0.0.0/24: it leaves by the interface of 10.0.0.0/24 with 20.0.0.1 as its
\* gateway
HostResolvedThroughTwoRoutes ==
  /\ DefaultVrf \in DOMAIN routeTables
  /\ {kNet4, kNet8, kHost} \subseteq networks(routeTables[DefaultVrf])
  /\ firstOf(routeOf(routeTables[DefaultVrf], kNet8)).nhops
       = {[addr |-> kGateway, intf |-> NoIntf]}
  /\ routeOf(routeTables[DefaultVrf], kHost).fwd
       = [action |-> "NEXTHOPS",
          nhops |-> {[addr |-> kGateway2, intf |-> kIntf.interfaceID]}]

\* the best candidate of the resolved route r names a gateway that no route of
\* rt covers
uncovered(rt, r) ==
  /\ r.fwd.action # "PENDING"
  /\ firstOf(r).action = "NEXTHOPS"
  /\ \E nh \in firstOf(r).nhops :
       nh.intf = NoIntf /\ longestMatch(rt, nh.addr) = NoMatch

\* every gateway of r's best candidate is covered by a connected route of rt
coveredByConnected(rt, r) ==
  /\ firstOf(r).action = "NEXTHOPS"
  /\ \A nh \in firstOf(r).nhops :
       /\ longestMatch(rt, nh.addr) # NoMatch
       /\ \A x \in firstOf(routeOf(rt, longestMatch(rt, nh.addr))).nhops :
            x.intf # NoIntf

\* C17: a commit never fails for a route whose gateway no route covers: the
\* route stays in its map, unresolved, out of the FIB snapshot and, once the call
\* has returned, out of what getRouteTable reads; and when a later transaction
\* leaves every gateway of that unchanged candidate covered by a connected
\* route, that commit resolves the route to the connected route's interface and
\* puts it in the FIB.
UnresolvedUntilGatewayCovered ==
  [][/\ \A t \in ConfigThreads : pc[t] = "apply" => lastRet' = Ret("update", "ok")
     /\ \A vrf \in DOMAIN routeTables' : \A p \in networks(routeTables'[vrf]) :
          LET after == routeTables'[vrf]
              r == routeOf(after, p)
              returned == \A t \in ConfigThreads : pc'[t] = "idle"
          IN /\ uncovered(after, r) =>
                  /\ r.fwd = Unresolved
                  /\ p \notin DOMAIN fibUpdater(after)
                  /\ returned => p \notin DOMAIN fib'[vrf]
                  /\ returned => \A u \in getRouteTable(fib') : u.dest # p
             /\ ( /\ vrf \in DOMAIN routeTables
                  /\ p \in networks(routeTables[vrf])
                  /\ uncovered(routeTables[vrf], routeOf(routeTables[vrf], p))
                  /\ firstOf(r) = firstOf(routeOf(routeTables[vrf], p))
                  /\ coveredByConnected(after, r) )
                 => /\ r.fwd.action = "NEXTHOPS"
                    /\ {nh.intf : nh \in r.fwd.nhops}
                         = {x.intf : x \in UNION {
                              firstOf(routeOf(after, longestMatch(after, nh.addr))).nhops :
                                nh \in firstOf(r).nhops}}
                    /\ fibUpdater(after)[p] = r.fwd
                    /\ returned =>
                         /\ fib'[vrf][p] = r.fwd
                         /\ \E u \in getRouteTable(fib') : u.dest = p]_vars

\* BGP's 20.0.0.0/8 via 10.0.0.1 and 8.8.8.8/32 via 20.0.0.1 have been
\* committed and applied in a VRF without a route for 10.0.0.1: both are in
\* the route table and neither is in the FIB
GatewayCoveredByNoRoute ==
  /\ lastRet = Ret("update", "ok")
  /\ DefaultVrf \in DOMAIN routeTables
  /\ kNet4 \notin networks(routeTables[DefaultVrf])
  /\ getEntryForClient(routeTables[DefaultVrf], kNet8, BGPD) # {}
  /\ getEntryForClient(routeTables[DefaultVrf], kHost, BGPD) # {}
  /\ getEntryForClient(routeTables[DefaultVrf], kNet8, STATIC_ROUTE) = {}
  /\ {kNet8, kHost} \cap DOMAIN fib[DefaultVrf] = {}

----------------------------------------------------------------------------
(* Algebraic properties of add and delete *)

\* C18: adding the same (prefix, client, candidate) twice is the same as adding
\* it once.  For every commit of an update that only adds: the same adds
\* repeated in a second update succeed and leave the route table and the FIB
\* snapshot as the first left them, the adds given twice within the one update
\* give the same table, and an update that adds a candidate the client already
\* has leaves the table as it was.
AddTwiceIsIdempotent ==
  [][\A t \in ConfigThreads :
       (pc[t] = "update" /\ pc'[t] = "apply" /\ call'[t].toDelete = <<>>) =>
         LET c == call'[t]
             vrf == c.routerID
             adminDistance == clientIdToAdminDistance(c.clientID)
             once == routeTables'[vrf]
             again == runUpdate(once, c.clientID, adminDistance, c.toAdd, <<>>, FALSE)
             doubled == runUpdate(routeTables[vrf], c.clientID, adminDistance,
                                  c.toAdd \o c.toAdd, <<>>, c.resetClientsRoutes)
         IN /\ ~again.thrown
            /\ again.rt = once
            /\ fibUpdater(again.rt) = fibUpdater(once)
            /\ doubled.rt = once
            /\ ( /\ ~c.resetClientsRoutes
                 /\ \A i \in 1..Len(c.toAdd) :
                      getEntryForClient(routeTables[vrf], c.toAdd[i].dest, c.clientID)
                        = {entryFrom(c.toAdd[i], adminDistance)} )
                => /\ routeTables' = routeTables
                   /\ fibUpdater(routeTables'[vrf]) = fibUpdater(routeTables[vrf])]_vars

\* BGP has added 20.0.0.0/8 via 10.0.0.1 twice within one update, and the route
\* is resolved through the connected 10.0.0.0/24
AddedTwiceInOneUpdate ==
  \E t \in ConfigThreads :
    /\ Committed(t)
    /\ call[t].clientID = BGPD
    /\ call[t].toAdd = <<unicastRoute(kNet8, kGateway), unicastRoute(kNet8, kGateway)>>
    /\ routeOf(routeTables[DefaultVrf], kNet8).fwd.action = "NEXTHOPS"
    /\ routeOf(routeTables[DefaultVrf], kNet8).entries[BGPD]
         = entryFrom(unicastRoute(kNet8, kGateway), clientIdToAdminDistance(BGPD))

\* C19: when an update adds one route for a prefix the client had no candidate
\* for, deleting that prefix for the client, in a second update or within the
\* same one, gives back the route table from before the add: the same route
\* entries, the same candidates and, after the resolution that ends the update,
\* the same forwarding for every prefix, also for those that were resolved
\* through the added route in between.
AddThenDeleteRestores ==
  [][\A t \in ConfigThreads :
       ( /\ pc[t] = "update" /\ pc'[t] = "apply"
         /\ Len(call'[t].toAdd) = 1 /\ call'[t].toDelete = <<>>
         /\ ~call'[t].resetClientsRoutes
         /\ getEntryForClient(routeTables[call'[t].routerID], call'[t].toAdd[1].dest,
                              call'[t].clientID) = {} ) =>
         LET c == call'[t]
             vrf == c.routerID
             adminDistance == clientIdToAdminDistance(c.clientID)
             deleted == runUpdate(routeTables'[vrf], c.clientID, adminDistance,
                                  <<>>, <<c.toAdd[1].dest>>, FALSE)
             both == runUpdate(routeTables[vrf], c.clientID, adminDistance,
                               c.toAdd, <<c.toAdd[1].dest>>, FALSE)
             before == updateDone(routeTables[vrf])
         IN /\ ~deleted.thrown
            /\ deleted.rt = before
            /\ fibUpdater(deleted.rt) = fibUpdater(before)
            /\ both.rt = before]_vars

\* BGP has added 20.0.0.0/8, which was in no applied snapshot, in a VRF where
\* 10.0.0.0/24 is connected, and 8.8.8.8/32 via 20.0.0.1, unresolved until
\* then, is resolved through it
AddedRouteResolvesAnother ==
  \E t \in ConfigThreads :
    /\ Committed(t)
    /\ call[t].clientID = BGPD
    /\ call[t].toAdd = <<unicastRoute(kNet8, kGateway)>>
    /\ ~call[t].resetClientsRoutes
    /\ kNet4 \in DOMAIN fib[DefaultVrf]
    /\ {kNet8, kHost} \cap DOMAIN fib[DefaultVrf] = {}
    /\ getEntryForClient(routeTables[DefaultVrf], kNet4, INTERFACE_ROUTE) # {}
    /\ kHost \in networks(routeTables[DefaultVrf])
    /\ routeOf(routeTables[DefaultVrf], kHost).fwd.action = "NEXTHOPS"

----------------------------------------------------------------------------
(* Properties of the multipath next-hop table *)

\* the programmed routes that forward to more than one next hop
multipathRoutes ==
  {k \in DOMAIN bcmFib :
     bcmFib[k].fwd.action = "NEXTHOPS" /\ Cardinality(bcmFib[k].fwd.nhops) > 1}

holders(handle) ==
  {k \in DOMAIN bcmFib : bcmFib[k].nextHopHostReference = handle}

\* C21: a BcmMultiPathNextHop is in the multipath table exactly as long as a
\* programmed route holds it: every entry of the table has as many references as
\* routes that hold it, and at least one, so the weak pointer of an entry always
\* locks; every reference a route holds is to an entry of the table.
TableEntriesHaveLiveHolders ==
  /\ \A h \in DOMAIN multiPathNextHopTable :
       /\ holders(h) # {}
       /\ multiPathNextHopTable[h].refs = Cardinality(holders(h))
  /\ \A k \in DOMAIN bcmFib :
       bcmFib[k].nextHopHostReference # NoReference
         => bcmFib[k].nextHopHostReference \in DOMAIN multiPathNextHopTable

\* the object with handle 1, the first ever made, has gone with its last holder
\* while a later object lives on, and so has an object a route left for a DROP
FirstGroupGoneWithLastHolder ==
  /\ 1 \notin DOMAIN multiPathNextHopTable
  /\ 2 \in DOMAIN multiPathNextHopTable
  /\ \E k \in DOMAIN bcmFib : bcmFib[k].fwd.action = "DROP" /\ bcmFib[k].added

\* the routes, programmed after the step, that forward to the next-hop set of key
usersAfter(key) ==
  {k \in DOMAIN bcmFib' :
     /\ bcmFib'[k].fwd.action = "NEXTHOPS"
     /\ BcmMultiPathNextHopKey(k[1], bcmFib'[k].fwd.nhops) = key}

\* C22: a BcmMultiPathNextHop whose next-hop set a programmed route still
\* forwards to after addRoute or deleteRoute (the reprogrammed route itself, with
\* the set it had, or another route) outlives the step under the handle it had:
\* it is not destroyed and made again, and every route of that set holds it and
\* has its egress id.
SharedGroupKeepsHandle ==
  [][\A h \in DOMAIN multiPathNextHopTable :
       usersAfter(multiPathNextHopTable[h].key) # {} =>
         /\ h \in DOMAIN multiPathNextHopTable'
         /\ multiPathNextHopTable'[h].key = multiPathNextHopTable[h].key
         /\ \A k \in usersAfter(multiPathNextHopTable[h].key) :
              /\ bcmFib'[k].nextHopHostReference = h
              /\ bcmFib'[k].egressId = getEgressId(h, multiPathNextHopTable[h].key)]_vars

\* BGP's route to 20.0.0.0/8 is the one holder of the object with handle 2 while
\* handle 1 is free, and a static route to the same two next hops can replace it
SoleHolderBelowFreeHandle ==
  /\ <<DefaultVrf, kNet8>> \in DOMAIN bcmFib
  /\ bcmFib[<<DefaultVrf, kNet8>>].fwd.adminDistance = clientIdToAdminDistance(BGPD)
  /\ bcmFib[<<DefaultVrf, kNet8>>].nextHopHostReference = 2
  /\ multiPathNextHopTable[2].refs = 1
  /\ 1 \notin DOMAIN multiPathNextHopTable

\* the programmed routes that forward to exactly one next hop
singlePathRoutes ==
  {k \in DOMAIN bcmFib :
     bcmFib[k].fwd.action = "NEXTHOPS" /\ Cardinality(bcmFib[k].fwd.nhops) = 1}

----------------------------------------------------------------------------
(* Properties of the serialized route table *)

\* entry a of the routes list comes before entry b by mask length, then network
byMaskThenNetwork(a, b) ==
  \/ a.maskLen < b.maskLen
  \/ a.maskLen = b.maskLen /\ addressLess(a.network, b.network)

\* entry a comes before entry b by family, then network, then mask length
byFamilyNetworkMask(a, b) ==
  \/ a.network.v4 /\ ~b.network.v4
  \/ a.network.v4 = b.network.v4 /\ a.network.addr < b.network.addr
  \/ a.network = b.network /\ a.maskLen < b.maskLen

\* the routes list of the routes of one VRF
routesOf(vrf) ==
  toFollyDynamic([k \in {x \in DOMAIN bcmFib : x[1] = vrf} |-> bcmFib[k]])

\* C24 (as the code has it): the routes list is ordered by VRF, then mask
\* length, then network address: it is the list of the VRFs' routes one VRF
\* after the other in ascending VRF order, and the routes of one VRF are in
\* ascending order of mask length and, for equal mask lengths, of network.
RoutesSortedByVrfMaskNetwork ==
  /\ toFollyDynamic(bcmFib) = routesOf(0) \o routesOf(1)
  /\ \A vrf \in VrfIds : \A i, j \in 1..Len(routesOf(vrf)) :
       i < j => byMaskThenNetwork(routesOf(vrf)[i], routesOf(vrf)[j])

\* every route of both VRFs is programmed
AllRoutesSerialized ==
  /\ DOMAIN bcmFib = VrfIds \X SerializedPrefixes
  /\ Len(toFollyDynamic(bcmFib)) = 2 * Cardinality(SerializedPrefixes)

\* C24 (as stated): the routes list is ordered by family, then network, then
\* mask length.
RoutesSortedByFamilyNetworkMask ==
  \A i, j \in 1..Len(toFollyDynamic(bcmFib)) :
    i < j => byFamilyNetworkMask(toFollyDynamic(bcmFib)[i], toFollyDynamic(bcmFib)[j])

----------------------------------------------------------------------------
(* Properties of update: scope, counters *)

\* C27: every step of update(vrf = v, ...), from its entry to its return or its
\* exception, leaves the set of VRFs and the route table (candidates and
\* resolved forwarding) of every VRF other than v as they were.
UpdateChangesOneVrf ==
  [][\A t \in Threads :
       /\ pc[t] = "idle" /\ pc'[t] = "update" => routeTables' = routeTables
       /\ pc[t] \in {"update", "apply"} /\ pc'[t] # pc[t] =>
            /\ DOMAIN routeTables' = DOMAIN routeTables
            /\ \A vrf \in DOMAIN routeTables \ {call[t].routerID} :
                 routeTables'[vrf] = routeTables[vrf]]_vars

\* an update of the default VRF has put BGP's route for 10.0.0.0/24 there while
\* VRF 1 holds routes of its own
UpdatedBesideOtherVrf ==
  \E t \in Threads :
    /\ Committed(t)
    /\ call[t].routerID = DefaultVrf
    /\ getEntryForClient(routeTables[DefaultVrf], kNet4, BGPD) # {}
    /\ 1 \in DOMAIN routeTables
    /\ networks(routeTables[1]) # {}
    /\ routeTables[1] # routeTables[DefaultVrf]

\* the number of elements of a list of prefixes that are IPv4, or are not
countFamily(prefixes, v4) ==
  Cardinality({i \in 1..Len(prefixes) : isV4(prefixes[i]) = v4})

\* C28: the counters update returns count the requested operations: the routes
\* of toAdd and the prefixes of toDelete, each split by address family, whether
\* or not the operation changed anything and whatever a reset removed.
StatsCountRequestedOperations ==
  [][\A t \in Threads :
       pc[t] = "apply" /\ pc'[t] = "idle" /\ lastRet' = Ret("update", "ok") =>
         LET added == [i \in 1..Len(call[t].toAdd) |-> call[t].toAdd[i].dest]
         IN /\ call[t].stats.v4RoutesAdded = countFamily(added, TRUE)
            /\ call[t].stats.v6RoutesAdded = countFamily(added, FALSE)
            /\ call[t].stats.v4RoutesDeleted = countFamily(call[t].toDelete, TRUE)
            /\ call[t].stats.v6RoutesDeleted = countFamily(call[t].toDelete, FALSE)
            /\ call[t].stats.v4RoutesAdded + call[t].stats.v6RoutesAdded
                 = Len(call[t].toAdd)
            /\ call[t].stats.v4RoutesDeleted + call[t].stats.v6RoutesDeleted
                 = Len(call[t].toDelete)]_vars

\* an update is about to return that reset BGP's routes, added the same route for
\* 10.0.0.0/24 twice and deleted fe80::/10, which BGP had no route for
CountedRepeatAndAbsent ==
  \E t \in Threads :
    /\ Committed(t)
    /\ call[t].clientID = BGPD
    /\ call[t].resetClientsRoutes
    /\ Len(call[t].toAdd) = 2
    /\ call[t].toAdd[1] = call[t].toAdd[2]
    /\ call[t].toAdd[1].dest = kNet4
    /\ call[t].toDelete = <<kIPv6LinkLocal>>
    /\ call[t].stats.v4RoutesAdded = 2
    /\ call[t].stats.v6RoutesDeleted = 1

----------------------------------------------------------------------------
(* Properties of the static routes of one reconfigure *)

\* the places of a list of static routes that name prefix p of VRF vrf
placesOf(range, vrf, p) ==
  {i \in 1..Len(range) : range[i].routerID = vrf /\ range[i].prefix = p}

\* the last of a non-empty set of places
lastPlace(places) == CHOOSE i \in places : \A j \in places : j <= i

\* C29: after a reconfigure that succeeds, the STATIC candidate of a prefix of
\* a VRF is the one of the static-route list applied last among those that
\* name it: the route with next hops if that list names it, else DROP if the
\* to-null list does, else TO_CPU if the to-CPU list does, and none otherwise;
\* there is never more than one.
LastStaticListWins ==
  [][\A t \in Threads :
       pc[t] = "reconfigure" /\ lastRet' = Ret("reconfigure", "ok") =>
         \A vrf \in DOMAIN routeTables' : \A p \in Prefixes :
           LET cfg == call[t].cfg
               withNextHops == placesOf(cfg.staticRoutesWithNextHops, vrf, p)
               toNull == placesOf(cfg.staticRoutesToNull, vrf, p)
               toCpu == placesOf(cfg.staticRoutesToCpu, vrf, p)
           IN getEntryForClient(routeTables'[vrf], p, STATIC_ROUTE) =
                IF withNextHops # {}
                THEN {fromStaticRoute(
                        cfg.staticRoutesWithNextHops[lastPlace(withNextHops)])}
                ELSE IF toNull # {} THEN {createDrop}
                ELSE IF toCpu # {} THEN {createToCpu}
                ELSE {}]_vars

\* a reconfigure is under way whose three static-route lists all name
\* 10.0.0.0/24 of the default VRF
SamePrefixInThreeLists ==
  \E t \in Threads :
    /\ pc[t] = "reconfigure"
    /\ placesOf(call[t].cfg.staticRoutesWithNextHops, DefaultVrf, kNet4) # {}
    /\ placesOf(call[t].cfg.staticRoutesToNull, DefaultVrf, kNet4) # {}
    /\ placesOf(call[t].cfg.staticRoutesToCpu, DefaultVrf, kNet4) # {}

----------------------------------------------------------------------------
(* The duration in UpdateStatistics *)

\* the update of thread t returns its statistics in this step
returnsStats(t) ==
  /\ pc[t] = "apply"
  /\ pc'[t] # "apply"
  /\ lastRet' = Ret("update", "ok")

\* C25 (as the code has it): the duration an update returns covers the interval
\* from the entry of update, before the writer lock is requested, to the return
\* after the apply step, so the time spent waiting for the lock is part of it
DurationFromEntry ==
  [][\A t \in Threads :
       returnsStats(t) => lastDuration' = now - timer[t].entered]_vars

\* C25 witness: an update that had to wait for the writer lock has returned a
\* duration that reaches back before the lock was acquired
ReturnedAfterWaitingForLock ==
  \E t \in Threads :
    /\ pc[t] = "idle"
    /\ lastRet = Ret("update", "ok")
    /\ timer[t].locked > timer[t].entered
    /\ lastDuration > now - timer[t].locked
    /\ \A u \in Threads \ {t} : timer[u].entered = 0 /\ timer[u].locked = 0

\* C25 (as stated): the duration an update returns covers the interval from
\* the acquisition of the writer lock to the return of the apply step
DurationFromLockAcquisition ==
  [][\A t \in Threads :
       returnsStats(t) => lastDuration' = now - timer[t].locked]_vars

----------------------------------------------------------------------------
(* The apply step of update *)

\* updateStateBlockingFn is invoked by the update of thread t in this step
invokesApplyFn(t) ==
  /\ pc[t] = "apply"
  /\ pc'[t] # "apply"

\* the transaction of thread t's update is complete in its VRF: the reset, the
\* adds and the deletes show in the client's candidates, and no route is left
\* to resolve
transactionDone(t) ==
  LET rt == routeTables[call[t].routerID]
      c == call[t].clientID
      mine == {p \in networks(rt) : getEntryForClient(rt, p, c) # {}}
  IN /\ \A p \in networks(rt) : routeOf(rt, p).fwd # Pending
     /\ mine \cap Range(call[t].toDelete) = {}
     /\ dests(call[t].toAdd) \ Range(call[t].toDelete) \subseteq mine
     /\ call[t].resetClientsRoutes => mine \subseteq dests(call[t].toAdd)

\* C26: an update that found its VRF and passed validation invokes the apply
\* function exactly once, with the update type its caller passed, when the
\* reset, the adds, the deletes and the resolution of its transaction are
\* complete; the step that invokes it and everything after it leave the route
\* tables as they are
ApplyFnOnceAfterTransaction ==
  [][\A t \in Threads :
       /\ pc'[t] = "apply" => applyFnCalls' = <<>>
       /\ invokesApplyFn(t) =>
            /\ applyFnCalls' = <<[updateType |-> updateTypeOf(handler[t])]>>
            /\ transactionDone(t)
            /\ routeTables' = routeTables]_vars

\* C26 witness: deleteUnicastRoutes has withdrawn a route that addUnicastRoutes
\* had added, and its one apply call was labelled "delete unicast route"
DeleteAppliedOnce ==
  \E t \in Threads :
    /\ handler[t] = "deleteUnicastRoutes"
    /\ pc[t] = "idle"
    /\ lastRet = Ret("update", "ok")
    /\ applyFnCalls = <<[updateType |-> "delete unicast route"]>>
    /\ \E u \in Threads \ {t} : handler[u] = "addUnicastRoutes" /\ pc[u] = "idle"
    /\ DefaultVrf \in DOMAIN routeTables
    /\ getEntryForClient(routeTables[DefaultVrf], kNet4, BGPD) = {}

----------------------------------------------------------------------------
(* The FIB-synced gate of the Thrift handler *)

\* the handlers that ask for a synced FIB
gated == {"addUnicastRoutes", "deleteUnicastRoutes"}

\* C30: through the Thrift handler, addUnicastRoutes and deleteUnicastRoutes
\* change the RIB only once the FIB was synced; before, they fail and leave
\* the RIB as it is, while syncFib fails only on a switch that is not
\* configured; the FIB-synced flag is set only by a syncFib whose update has
\* returned without error, and is never cleared
RoutesOnlyAfterSyncFib ==
  [][/\ \A t \in Threads :
          /\ (pc[t] = "update" /\ handler[t] \in gated /\ routeTables' # routeTables)
               => fibSynced
          /\ (pc[t] = "idle" /\ pc'[t] # "idle" /\ handler'[t] \in gated)
               => fibSynced
          /\ (pc[t] = "idle" /\ pc'[t] # "idle" /\ handler'[t] = "syncFib")
               => fullyConfigured
     /\ \A h \in Handlers :
          (lastRet' # lastRet /\ lastRet'.op = h) =>
             /\ UNCHANGED <<routeTables, fib, fibSynced>>
             /\ ~fullyConfigured \/ (h \in gated /\ ~fibSynced)
     /\ (fullyConfigured /\ ~fibSynced) =>
          \A t \in Threads : pc[t] = "idle" => ENABLED ThriftEnter(t, "syncFib")
     /\ (fibSynced' /\ ~fibSynced) =>
          \E t \in Threads :
            /\ pc[t] = "synced" /\ pc'[t] = "idle"
            /\ handler[t] = "syncFib"
     /\ \A t \in Threads :
          pc'[t] = "synced" =>
             \/ pc[t] = "synced"
             \/ handler[t] = "syncFib" /\ lastRet' = Ret("update", "ok")
     /\ fibSynced => fibSynced']_vars

\* C30 witness: after a syncFib has marked the FIB synced, addUnicastRoutes has
\* put a route into the RIB
AddedAfterSyncFib ==
  \E t \in Threads :
    /\ fibSynced
    /\ handler[t] = "addUnicastRoutes"
    /\ pc[t] = "apply"
    /\ call[t].toAdd # <<>>
    /\ getEntryForClient(routeTables[DefaultVrf], kNet4, BGPD) # {}

----------------------------------------------------------------------------
(* Progress *)

\* the places of a call that holds the writer lock
locked == {"update", "apply", "reconfigure"}

----------------------------------------------------------------------------
(* Failing hardware writes *)

\* the prefixes whose BcmRoute is in fib_
programmed == {key[2] : key \in DOMAIN bcmFib}

\* C32 (as stated): when program throws on a route that was programmed before,
\* the route is as it was before the call, its forwarding entry, egress,
\* added flag, next-hop reference and host-table entry, and the reference taken
\* for the new next hops is given back
FailedProgramChangesNothing ==
  [][\A prefix \in programmed, forwardInfo \in HwForwards :
       addRouteThrowsOf(DefaultVrf, prefix, forwardInfo) =>
          UNCHANGED <<bcmFib, multiPathNextHopTable, hostRouteEntry>>]_vars

\* C34 (as stated): CHECK(host) of ~BcmRoute never fails
DestructorCheckHolds == lastRet # Ret("~BcmRoute", "CHECK failed")

----------------------------------------------------------------------------
(* The VRFs of a configuration *)

\* the static routes of all three lists of a configuration
staticRoutesOf(cfg) ==
  Range(cfg.staticRoutesToCpu) \cup Range(cfg.staticRoutesToNull)
    \cup Range(cfg.staticRoutesWithNextHops)

\* the VRFs a configuration names in its static routes only
staticOnlyVrfs(cfg) ==
  {r.routerID : r \in staticRoutesOf(cfg)} \ DOMAIN cfg.interfaceRoutes

\* C33: when reconfigure is left, with or without an exception, the RIB holds
\* exactly the VRFs that are keys of the interface-routes map, so the lookup
\* at(vrf) finds every VRF of the RIB; a VRF named by static routes alone has
\* no table, and after a reconfigure that returned each table holds the static
\* routes of its own VRF and no others
VrfsAreInterfaceMapKeys ==
  [][\A t \in ConfigThreads :
       (pc[t] = "reconfigure" /\ pc'[t] = "idle") =>
          LET cfg == call[t].cfg
          IN /\ DOMAIN routeTables' = DOMAIN cfg.interfaceRoutes
             /\ staticOnlyVrfs(cfg) \cap DOMAIN routeTables' = {}
             /\ lastRet' = Ret("reconfigure", "ok") =>
                  \A vrf \in DOMAIN routeTables' :
                    {q \in Prefixes :
                       getEntryForClient(routeTables'[vrf], q, STATIC_ROUTE) # {}}
                      = {r.prefix : r \in {x \in staticRoutesOf(cfg) : x.routerID = vrf}}]_vars

\* C33 witness: a reconfigure whose static routes name a VRF that is no key of
\* its interface-routes map is about to return without an error, with tables
\* for the keys of the map only
StaticRouteOfUnconfiguredVrfIgnored ==
  \E t \in ConfigThreads :
    /\ pc[t] = "reconfigure"
    /\ staticOnlyVrfs(call[t].cfg) # {}
    /\ ~runReconfigure(call[t].cfg).thrown
    /\ DOMAIN runReconfigure(call[t].cfg).rt = DOMAIN call[t].cfg.interfaceRoutes

----------------------------------------------------------------------------
(* The ECMP egress of a next-hop group *)

\* the number of paths of a next-hop group: the sum of its weights
RECURSIVE totalWeight(_)
totalWeight(nhops) ==
  IF nhops = {} THEN 0
  ELSE LET nh == CHOOSE x \in nhops : TRUE
       IN nh.weight + totalWeight(nhops \ {nh})

\* C35: in every next-hop group each next hop has as many paths as its weight,
\* there is an ECMP egress object iff the paths are more than one, a group of
\* more than one next hop has an ECMP egress object and returns its id, and a
\* group with an ECMP egress object has its routes programmed with that
\* object's id
EcmpEgressIffUsed ==
  \A h \in DOMAIN multiPathNextHopTable :
    LET key == multiPathNextHopTable[h].key
    IN /\ \A nh \in key.nhops :
            Cardinality({path \in ecmpPaths(key) :
                           path[1] = hostEgressId(key.vrf, nh)}) = nh.weight
       /\ hasEcmpEgress(key) <=> totalWeight(key.nhops) > 1
       /\ Cardinality(key.nhops) > 1 =>
            /\ hasEcmpEgress(key)
            /\ getEgressId(h, key) = [kind |-> "ecmp", id |-> h]
       /\ hasEcmpEgress(key) =>
            \A r \in holders(h) : bcmFib[r].egressId = [kind |-> "ecmp", id |-> h]

----------------------------------------------------------------------------
(* The maps of the SAI VLAN manager *)

\* C37: after any calls of addVlan, removeVlan and changeVlan, failed ones
\* included, vlanSaiIds_ maps a SAI id to a VlanID exactly when vlans_ holds a
\* VLAN for that VlanID with that SAI id
VlanMapsConsistent ==
  \A saiId \in VlanSaiIds, v \in VlanIds :
    (saiId \in DOMAIN vlanSaiIds_ /\ vlanSaiIds_[saiId] = v)
      <=> (v \in DOMAIN vlans_ /\ vlans_[v].id = saiId)

\* the ports whose bridge ports memberIdMap_ of a SaiVlan knows
memberPorts(vlan) ==
  {port \in KnownPorts : bridgePortOf(port) \in DOMAIN vlan.memberIdMap_}

\* memberIdMap_ maps the bridge ports one to one onto the member objects of
\* members_, each to the member made for it
oneToOne(vlan) ==
  /\ {vlan.memberIdMap_[b] : b \in DOMAIN vlan.memberIdMap_} = DOMAIN vlan.members_
  /\ \A b \in DOMAIN vlan.memberIdMap_ : vlan.members_[vlan.memberIdMap_[b]] = b
  /\ Cardinality(DOMAIN vlan.memberIdMap_) = Cardinality(DOMAIN vlan.members_)

\* C38: on every VLAN, addMember of a port that is no member followed by
\* removeMember of it gives back members_ and memberIdMap_ as they were;
\* members_ and memberIdMap_ are in one-to-one correspondence; and as long as
\* no changeVlan of the VLAN has failed the members, in memberIdMap_ and in
\* members_, are the ports of its latest definition
MembershipRestoredAndOneToOne ==
  \A v \in DOMAIN vlans_ :
    /\ \A port \in KnownPorts \ memberPorts(vlans_[v]),
          order \in Permutations(MemberIds) :
          \E added \in {addMember(vlanCall(vlans_[v], liveMembers), vlanSaiIds_,
                                   port, order)} :
            ~added.exhausted =>
               /\ removeMember(added, port).vlan.members_ = vlans_[v].members_
               /\ removeMember(added, port).vlan.memberIdMap_
                    = vlans_[v].memberIdMap_
    /\ oneToOne(vlans_[v])
    /\ swVlans[v].clean =>
         /\ memberPorts(vlans_[v]) = swVlans[v].ports
         /\ {vlans_[v].members_[m] : m \in DOMAIN vlans_[v].members_}
              = {bridgePortOf(port) : port \in swVlans[v].ports}

====
